---- MODULE Spec2Model ----
\* StreamFix: streaming preprocessor, JSON extraction FSM, repair pass, SSE
\* relay and artifact store, modelled from app/core/fsm.py,
\* app/core/repair.py, app/core/stream_processor.py and
\* app/api/chat_noauth.py.
\*
\* A Python str is a sequence of one-character strings.
EXTENDS Integers, Sequences, FiniteSets, TLC

----------------------------------------------------------------------------
\* ---- str helpers ----

\* s.startswith(m, i0) with the 0-based start i0 = i - 1
StartsWith(s, m, i) ==
    /\ i + Len(m) - 1 <= Len(s)
    /\ SubSeq(s, i, i + Len(m) - 1) = m

\* s[i-1:] of Python, for the 1-based index i
From(s, i) == SubSeq(s, i, Len(s))

RECURSIVE Concat(_)
\* "".join(parts)
Concat(parts) ==
    IF parts = <<>> THEN <<>> ELSE Head(parts) \o Concat(Tail(parts))

\* the whitespace characters of the model's alphabet (str.strip, regex \s)
IsSpace(c) == c \in {" ", "\n", "\t", "\r"}

\* regex class [a-zA-Z]
IsAlpha(c) == c \in {"a", "b", "e", "f", "l", "n", "r", "s", "t", "u", "h", "i", "k", "d", "j", "o"}

\* regex class [0-9]
IsDigit(c) == c \in {"0", "1", "2"}

\* regex class \w
IsWord(c) == IsAlpha(c) \/ IsDigit(c) \/ c = "_"

RECURSIVE LStrip(_)
LStrip(s) ==
    IF s # <<>> /\ IsSpace(Head(s)) THEN LStrip(Tail(s)) ELSE s

RECURSIVE RStrip(_)
RStrip(s) ==
    IF s # <<>> /\ IsSpace(s[Len(s)]) THEN RStrip(SubSeq(s, 1, Len(s) - 1)) ELSE s

\* s.strip()
Strip(s) == LStrip(RStrip(s))

\* position of the first c in s at or after i, or 0
RECURSIVE Find(_, _, _)
Find(s, c, i) ==
    IF i > Len(s) THEN 0
    ELSE IF s[i] = c THEN i
    ELSE Find(s, c, i + 1)

\* s.count(c)
RECURSIVE Count(_, _)
Count(s, c) ==
    IF s = <<>> THEN 0
    ELSE (IF Head(s) = c THEN 1 ELSE 0) + Count(Tail(s), c)

----------------------------------------------------------------------------
\* ---- app/core/fsm.py: preprocessor ----

THINK_OPEN == <<"<", "t", "h", "i", "n", "k", ">">>
THINK_CLOSE == <<"<", "/", "t", "h", "i", "n", "k", ">">>
\* the backtick character (this character cannot be written in a TLA+ string)
BACKTICK == "BACKTICK"

FENCE == <<BACKTICK, BACKTICK, BACKTICK>>
TAIL == 7

PreprocessState ==
    [in_think |-> FALSE, fence_open |-> FALSE, fence_lang_captured |-> FALSE,
     carry |-> <<>>, has_fences |-> FALSE, fence_only_content |-> <<>>,
     all_content |-> <<>>]

\* the scanning loop of preprocess_chunk over body, from index i
RECURSIVE ChunkScan(_, _, _, _)
ChunkScan(body, i, state, immediate_out) ==
    IF i > Len(body) THEN [state |-> state, out |-> immediate_out]
    ELSE IF StartsWith(body, THINK_OPEN, i)
    THEN ChunkScan(body, i + Len(THINK_OPEN),
                   [state EXCEPT !.in_think = TRUE], immediate_out)
    ELSE IF state.in_think /\ StartsWith(body, THINK_CLOSE, i)
    THEN ChunkScan(body, i + Len(THINK_CLOSE),
                   [state EXCEPT !.in_think = FALSE], immediate_out)
    ELSE IF StartsWith(body, FENCE, i)
    THEN ChunkScan(body, i + Len(FENCE),
                   [state EXCEPT !.has_fences = TRUE,
                                 !.fence_open = ~state.fence_open,
                                 !.fence_lang_captured = FALSE],
                   immediate_out)
    ELSE LET c == body[i] IN
         IF state.in_think
         THEN ChunkScan(body, i + 1, state, immediate_out)
         ELSE IF state.fence_open /\ ~state.fence_lang_captured
         THEN ChunkScan(body, i + 1,
                        [state EXCEPT !.fence_lang_captured = (c = "\n")],
                        immediate_out)
         ELSE ChunkScan(body, i + 1,
                        [state EXCEPT
                           !.fence_only_content =
                               IF state.fence_open THEN Append(@, c) ELSE @,
                           !.all_content = Append(@, c)],
                        Append(immediate_out, c))

\* preprocess_chunk keeping the whole buffer as carry, nothing being scanned
preprocess_chunk_KeepAll(text, state) ==
    [state |-> [state EXCEPT !.carry = state.carry \o text], out |-> <<>>]

\* preprocess_chunk(text, state): the new state and the returned string
preprocess_chunk(text, state) ==
    LET buf == state.carry \o text IN
    IF buf = <<>> THEN [state |-> state, out |-> <<>>]
    ELSE IF Len(buf) <= TAIL
    THEN [state |-> [state EXCEPT !.carry = buf], out |-> <<>>]
    ELSE LET cut == Len(buf) - TAIL
             body == SubSeq(buf, 1, cut)
             tail == SubSeq(buf, cut + 1, Len(buf))
             r == ChunkScan(body, 1, state, <<>>)
         IN [state |-> [r.state EXCEPT !.carry = tail], out |-> r.out]

\* the scanning loop of preprocess_finalize over final_chunk, from index i
RECURSIVE FinalizeScan(_, _, _, _)
FinalizeScan(final_chunk, i, state, processed_tail) ==
    IF i > Len(final_chunk) THEN [state |-> state, out |-> processed_tail]
    ELSE IF StartsWith(final_chunk, THINK_OPEN, i)
    THEN FinalizeScan(final_chunk, i + Len(THINK_OPEN),
                      [state EXCEPT !.in_think = TRUE], processed_tail)
    ELSE IF state.in_think /\ StartsWith(final_chunk, THINK_CLOSE, i)
    THEN FinalizeScan(final_chunk, i + Len(THINK_CLOSE),
                      [state EXCEPT !.in_think = FALSE], processed_tail)
    ELSE IF StartsWith(final_chunk, FENCE, i)
    THEN FinalizeScan(final_chunk, i + Len(FENCE),
                      [state EXCEPT !.has_fences = TRUE,
                                    !.fence_open = ~state.fence_open,
                                    !.fence_lang_captured = FALSE],
                      processed_tail)
    ELSE LET c == final_chunk[i] IN
         IF state.in_think
         THEN FinalizeScan(final_chunk, i + 1, state, processed_tail)
         ELSE IF state.fence_open /\ ~state.fence_lang_captured
         THEN FinalizeScan(final_chunk, i + 1,
                           [state EXCEPT !.fence_lang_captured = (c = "\n")],
                           processed_tail)
         ELSE FinalizeScan(final_chunk, i + 1,
                           [state EXCEPT
                              !.fence_only_content =
                                  IF state.fence_open THEN Append(@, c) ELSE @,
                              !.all_content = Append(@, c)],
                           Append(processed_tail, c))

\* a preprocess_finalize that throws the carry away
preprocess_finalize_DropsCarry(state) ==
    [state |-> [state EXCEPT !.carry = <<>>], out |-> <<>>]

\* preprocess_finalize(state): the new state and the returned tail
preprocess_finalize(state) ==
    IF state.carry = <<>> THEN [state |-> state, out |-> <<>>]
    ELSE FinalizeScan(state.carry, 1, [state EXCEPT !.carry = <<>>], <<>>)

\* a preprocess_get_result that never prefers the fenced content
preprocess_get_result_AllContent(state) == state.all_content

preprocess_get_result(state) ==
    IF state.has_fences THEN state.fence_only_content ELSE state.all_content

\* the loop of preprocess_complete over text, from index i; st holds its locals
RECURSIVE CompleteScan(_, _, _)
CompleteScan(text, i, st) ==
    IF i > Len(text) THEN st
    ELSE IF StartsWith(text, THINK_OPEN, i)
    THEN CompleteScan(text, i + Len(THINK_OPEN), [st EXCEPT !.in_think = TRUE])
    ELSE IF st.in_think /\ StartsWith(text, THINK_CLOSE, i)
    THEN CompleteScan(text, i + Len(THINK_CLOSE), [st EXCEPT !.in_think = FALSE])
    ELSE IF StartsWith(text, FENCE, i)
    THEN CompleteScan(text, i + Len(FENCE),
                      [st EXCEPT !.has_fences = TRUE,
                                 !.fence_open = ~st.fence_open,
                                 !.fence_lang_captured = FALSE])
    ELSE LET c == text[i] IN
         IF st.in_think THEN CompleteScan(text, i + 1, st)
         ELSE IF st.fence_open
         THEN IF ~st.fence_lang_captured
              THEN CompleteScan(text, i + 1,
                                [st EXCEPT !.fence_lang_captured = (c = "\n")])
              ELSE CompleteScan(text, i + 1,
                                [st EXCEPT !.fence_out = Append(@, c)])
         ELSE CompleteScan(text, i + 1, [st EXCEPT !.out = Append(@, c)])

preprocess_complete(text) ==
    IF text = <<>> THEN <<>>
    ELSE LET st == CompleteScan(text, 1,
                       [out |-> <<>>, fence_out |-> <<>>, in_think |-> FALSE,
                        fence_open |-> FALSE, fence_lang_captured |-> FALSE,
                        has_fences |-> FALSE])
         IN IF st.has_fences THEN st.fence_out ELSE st.out

----------------------------------------------------------------------------
\* ---- app/core/fsm.py: extraction FSM ----

\* JsonFsmState(max_chars = m); completable is the attribute fsm_finalize adds
JsonFsmState(m) ==
    [state |-> "SEEK_START", depth |-> 0, in_string |-> FALSE,
     escape |-> FALSE, started_with |-> "", buf |-> <<>>, max_chars |-> m,
     completable |-> FALSE]

MAX_JSON_CHARS == 200000

\* an iteration that counts delimiters inside string literals as well
FsmStep_NoString(state, ch, root) ==
    IF state.state = "SEEK_START"
    THEN IF (ch = "{" /\ root # "array") \/ (ch = "[" /\ root # "object")
         THEN [state EXCEPT !.state = "IN_JSON", !.started_with = ch,
                            !.depth = 1, !.buf = Append(@, ch)]
         ELSE state
    ELSE LET s1 == [state EXCEPT !.buf = Append(@, ch),
                                 !.in_string = IF ch = "\"" THEN ~@ ELSE @]
             s2 == IF ch \in {"{", "["}
                   THEN [s1 EXCEPT !.depth = @ + 1]
                   ELSE IF ch \in {"}", "]"}
                   THEN [s1 EXCEPT !.depth = @ - 1]
                   ELSE s1
         IN IF ch \in {"}", "]"} /\ s2.depth = 0
            THEN [s2 EXCEPT !.state = "DONE"]
            ELSE s2

\* one iteration of the for loop of fsm_feed, on the character ch
FsmStep(state, ch, root) ==
    IF state.state = "SEEK_START"
    THEN IF root = "object" /\ ch # "{" THEN state
         ELSE IF root = "array" /\ ch # "[" THEN state
         ELSE IF ch = "{" \/ ch = "["
         THEN [state EXCEPT !.state = "IN_JSON", !.started_with = ch,
                            !.depth = 1, !.buf = Append(@, ch)]
         ELSE state
    ELSE LET s1 == [state EXCEPT !.buf = Append(@, ch)] IN
         IF s1.in_string
         THEN IF s1.escape THEN [s1 EXCEPT !.escape = FALSE]
              ELSE IF ch = "\\" THEN [s1 EXCEPT !.escape = TRUE]
              ELSE IF ch = "\"" THEN [s1 EXCEPT !.in_string = FALSE]
              ELSE s1
         ELSE IF ch = "\"" THEN [s1 EXCEPT !.in_string = TRUE]
         ELSE LET s2 == IF ch \in {"{", "["}
                        THEN [s1 EXCEPT !.depth = @ + 1]
                        ELSE IF ch \in {"}", "]"}
                        THEN [s1 EXCEPT !.depth = @ - 1]
                        ELSE s1
              IN IF ch \in {"}", "]"} /\ s2.depth = 0
                 THEN [s2 EXCEPT !.state = "DONE"]
                 ELSE IF Len(s2.buf) >= s2.max_chars
                 THEN [s2 EXCEPT !.state = "FAILED"]
                 ELSE s2

\* fsm_feed's loop without the return that ends it at DONE or FAILED
RECURSIVE FsmLoop_NoReturn(_, _, _, _)
FsmLoop_NoReturn(state, text, i, root) ==
    IF i > Len(text) THEN state
    ELSE FsmLoop_NoReturn(FsmStep(state, text[i], root), text, i + 1, root)

\* the for loop of fsm_feed from index i, returning as soon as DONE or FAILED
RECURSIVE FsmLoop(_, _, _, _)
FsmLoop(state, text, i, root) ==
    IF i > Len(text) THEN state
    ELSE LET s == FsmStep(state, text[i], root) IN
         IF s.state \in {"DONE", "FAILED"} THEN s
         ELSE FsmLoop(s, text, i + 1, root)

\* an fsm_feed that forgets a pending escape when a call begins
fsm_feed_DropsEscape(state, text, root) ==
    IF state.state \in {"DONE", "FAILED"} THEN state
    ELSE FsmLoop([state EXCEPT !.escape = FALSE], text, 1, root)

\* fsm_feed without its early return on a terminal phase
fsm_feed_NoGuard(state, text, root) == FsmLoop(state, text, 1, root)

fsm_feed(state, text, root) ==
    IF state.state \in {"DONE", "FAILED"} THEN state
    ELSE FsmLoop(state, text, 1, root)

\* fsm_finalize that marks nothing
fsm_finalize_Noop(state) == state

fsm_finalize(state) ==
    IF state.state = "IN_JSON" /\ ~state.in_string /\ state.buf # <<>>
    THEN [state EXCEPT !.completable = TRUE]
    ELSE state

\* fsm_result(state): <<json_text, status>>
fsm_result(state) ==
    IF state.state = "DONE" THEN <<state.buf, "DONE">>
    ELSE IF state.state = "IN_JSON"
    THEN IF state.completable /\ ~state.in_string /\ state.buf # <<>>
         THEN <<state.buf, "DONE">>
         ELSE <<state.buf, "TRUNCATED">>
    ELSE <<<<>>, "FAILED">>

----------------------------------------------------------------------------
\* ---- json.loads, as called by app/core/repair.py ----

IsHex(c) == IsDigit(c) \/ c \in {"a", "b", "c", "d", "e", "f", "A", "B", "C", "D", "E", "F"}

\* skip JSON / regex whitespace from index i
RECURSIVE SkipWs(_, _)
SkipWs(s, i) ==
    IF i <= Len(s) /\ IsSpace(s[i]) THEN SkipWs(s, i + 1) ELSE i

\* scan a string literal whose opening quote is at i - 1;
\* the index after the closing quote, or 0
RECURSIVE ScanString(_, _)
ScanString(s, i) ==
    IF i > Len(s) THEN 0
    ELSE IF s[i] = "\"" THEN i + 1
    ELSE IF s[i] = "\\"
    THEN IF i + 1 > Len(s) THEN 0
         ELSE IF s[i + 1] \in {"\"", "\\", "/", "b", "f", "n", "r", "t"}
         THEN ScanString(s, i + 2)
         ELSE IF /\ s[i + 1] = "u"
                 /\ i + 5 <= Len(s)
                 /\ \A k \in 2..5 : IsHex(s[i + k])
         THEN ScanString(s, i + 6)
         ELSE 0
    ELSE IF s[i] \in {"\n", "\t", "\r"} THEN 0
    ELSE ScanString(s, i + 1)

RECURSIVE SkipDigits(_, _)
SkipDigits(s, i) ==
    IF i <= Len(s) /\ IsDigit(s[i]) THEN SkipDigits(s, i + 1) ELSE i

\* the integer part (?:0|[1-9]\d*) at a: the index after it, or 0
ScanInt(s, a) ==
    IF a > Len(s) \/ ~IsDigit(s[a]) THEN 0
    ELSE IF s[a] = "0" THEN a + 1
    ELSE SkipDigits(s, a)

\* the optional fraction (\.\d+)? at b
ScanFrac(s, b) ==
    IF b # 0 /\ b + 1 <= Len(s) /\ s[b] = "." /\ IsDigit(s[b + 1])
    THEN SkipDigits(s, b + 1)
    ELSE b

\* the digits of an exponent, expected at g; c when there are none
ScanExpDigits(s, c, g) ==
    IF g <= Len(s) /\ IsDigit(s[g]) THEN SkipDigits(s, g) ELSE c

\* the optional exponent ([eE][-+]?\d+)? at c
ScanExp(s, c) ==
    IF c # 0 /\ c <= Len(s) /\ s[c] \in {"e", "E"}
    THEN ScanExpDigits(s, c,
             IF c + 1 <= Len(s) /\ s[c + 1] \in {"-", "+"} THEN c + 2 ELSE c + 1)
    ELSE c

\* the number regex (-?(?:0|[1-9]\d*))(\.\d+)?([eE][-+]?\d+)? matched at i;
\* the index after the match, or 0
ScanNumber(s, i) ==
    ScanExp(s, ScanFrac(s, ScanInt(s,
        IF i <= Len(s) /\ s[i] = "-" THEN i + 1 ELSE i)))

JsonTrue == <<"t", "r", "u", "e">>
JsonFalse == <<"f", "a", "l", "s", "e">>
JsonNull == <<"n", "u", "l", "l">>

RECURSIVE ParseValue(_, _)
RECURSIVE ParseMembers(_, _)
RECURSIVE ParseElements(_, _)

\* a number or one of NaN, Infinity, -Infinity at i, n being ScanNumber(s, i)
ParseNumberOrConstant(s, i, n) ==
    IF n # 0 THEN n
    ELSE IF StartsWith(s, <<"N", "a", "N">>, i) THEN i + 3
    ELSE IF StartsWith(s, <<"I", "n", "f", "i", "n", "i", "t", "y">>, i) THEN i + 8
    ELSE IF StartsWith(s, <<"-", "I", "n", "f", "i", "n", "i", "t", "y">>, i)
    THEN i + 9
    ELSE 0

\* the JSON value starting at i; the index after it, or 0 when there is none
ParseValue(s, i) ==
    IF i > Len(s) THEN 0
    ELSE IF s[i] = "\"" THEN ScanString(s, i + 1)
    ELSE IF s[i] \in {"{", "["} /\ SkipWs(s, i + 1) > Len(s) THEN 0
    ELSE IF s[i] = "{"
    THEN IF s[SkipWs(s, i + 1)] = "}" THEN SkipWs(s, i + 1) + 1
         ELSE IF s[SkipWs(s, i + 1)] # "\"" THEN 0
         ELSE ParseMembers(s, SkipWs(s, i + 1))
    ELSE IF s[i] = "["
    THEN IF s[SkipWs(s, i + 1)] = "]" THEN SkipWs(s, i + 1) + 1
         ELSE ParseElements(s, SkipWs(s, i + 1))
    ELSE IF StartsWith(s, JsonNull, i) THEN i + 4
    ELSE IF StartsWith(s, JsonTrue, i) THEN i + 4
    ELSE IF StartsWith(s, JsonFalse, i) THEN i + 5
    ELSE ParseNumberOrConstant(s, i, ScanNumber(s, i))

\* after a member's value: e is the next non-blank index, '}' or ',' expected
MemberEnd(s, e) ==
    IF e > Len(s) THEN 0
    ELSE IF s[e] = "}" THEN e + 1
    ELSE IF s[e] # "," THEN 0
    ELSE IF SkipWs(s, e + 1) > Len(s) \/ s[SkipWs(s, e + 1)] # "\"" THEN 0
    ELSE ParseMembers(s, SkipWs(s, e + 1))

\* after a member's value, which ended before v (0: there was no value)
AfterMemberValue(s, v) ==
    IF v = 0 THEN 0 ELSE MemberEnd(s, SkipWs(s, v))

\* after a member's key: c is the next non-blank index, ':' expected
AfterKey(s, c) ==
    IF c > Len(s) \/ s[c] # ":" THEN 0
    ELSE AfterMemberValue(s, ParseValue(s, SkipWs(s, c + 1)))

\* after the key string, which ended before k (0: unterminated)
KeyEnd(s, k) ==
    IF k = 0 THEN 0 ELSE AfterKey(s, SkipWs(s, k))

\* the members of an object from the key whose opening quote is at j
ParseMembers(s, j) == KeyEnd(s, ScanString(s, j + 1))

\* after an element: e is the next non-blank index, ']' or ',' expected
ElementEnd(s, e) ==
    IF e > Len(s) THEN 0
    ELSE IF s[e] = "]" THEN e + 1
    ELSE IF s[e] # "," THEN 0
    ELSE ParseElements(s, SkipWs(s, e + 1))

\* after an element's value, which ended before v (0: there was no value)
AfterElement(s, v) ==
    IF v = 0 THEN 0 ELSE ElementEnd(s, SkipWs(s, v))

\* the elements of an array from the value at j
ParseElements(s, j) == AfterElement(s, ParseValue(s, j))

\* the document is a value that ended before v, followed by blanks only
DocumentEnd(s, v) == v # 0 /\ SkipWs(s, v) = Len(s) + 1

\* json.loads(s) succeeds
Parses(s) == DocumentEnd(s, ParseValue(s, SkipWs(s, 1)))

\* attempt_json_parse(json_text)[0]
attempt_json_parse(json_text) == Parses(json_text)

----------------------------------------------------------------------------
\* ---- app/core/repair.py ----

RECURSIVE SkipIdent(_, _)
\* skip [a-zA-Z0-9_]* from index i
SkipIdent(s, i) ==
    IF i <= Len(s) /\ IsWord(s[i]) THEN SkipIdent(s, i + 1) ELSE i

\* group 3 of the key pattern, (\s*:), whose colon is expected at g3
KeyColon(s, g1, g2, g3) ==
    IF g3 <= Len(s) /\ s[g3] = ":"
    THEN [ok |-> TRUE, g1 |-> g1, g2 |-> g2, g3 |-> g3 + 1]
    ELSE [ok |-> FALSE, g1 |-> 0, g2 |-> 0, g3 |-> 0]

\* the key pattern after its first character, group 1 ending before g1
KeyStart(s, g1) ==
    IF g1 <= Len(s) /\ (IsAlpha(s[g1]) \/ s[g1] = "_")
    THEN KeyColon(s, g1, SkipIdent(s, g1), SkipWs(s, SkipIdent(s, g1)))
    ELSE [ok |-> FALSE, g1 |-> 0, g2 |-> 0, g3 |-> 0]

\* the pattern ([{\s,]\s*)([a-zA-Z_][a-zA-Z0-9_]*)(\s*:) matched at i:
\* the ends of its three groups, or ok = FALSE
MatchUnquotedKey(s, i) ==
    IF s[i] \in {"{", ","} \/ IsSpace(s[i])
    THEN KeyStart(s, SkipWs(s, i + 1))
    ELSE [ok |-> FALSE, g1 |-> 0, g2 |-> 0, g3 |-> 0]

RECURSIVE SubUnquotedKeys(_, _)

\* quote_key(match) followed by the rest of the substitution, or no match at i
QuoteKeyAt(s, i, m) ==
    IF m.ok
    THEN SubSeq(s, i, m.g1 - 1) \o <<"\"">> \o SubSeq(s, m.g1, m.g2 - 1)
             \o <<"\"">> \o SubSeq(s, m.g2, m.g3 - 1)
             \o SubUnquotedKeys(s, m.g3)
    ELSE <<s[i]>> \o SubUnquotedKeys(s, i + 1)

\* re.sub(pattern, quote_key, json_text), scanning from index i
SubUnquotedKeys(s, i) ==
    IF i > Len(s) THEN <<>> ELSE QuoteKeyAt(s, i, MatchUnquotedKey(s, i))

fix_unquoted_keys(json_text) == SubUnquotedKeys(json_text, 1)

\* json_text.replace("'", '"')
fix_quote_types(json_text) ==
    [i \in 1..Len(json_text) |->
        IF json_text[i] = "'" THEN "\"" ELSE json_text[i]]

\* inner.replace('"', '\\"')
RECURSIVE EscapeQuotes(_)
EscapeQuotes(inner) ==
    IF inner = <<>> THEN <<>>
    ELSE (IF Head(inner) = "\"" THEN <<"\\", "\"">> ELSE <<Head(inner)>>)
             \o EscapeQuotes(Tail(inner))

\* the next double quote after index p, or 0; 0 when p is 0
NextQuote(s, p) == IF p = 0 THEN 0 ELSE Find(s, "\"", p + 1)

\* the value part "[^"]*"[^"]*"[^"]*" of the kv pattern, expected at k: the
\* index after its last quote, or 0
KvValue(s, k) ==
    IF k > Len(s) \/ s[k] # "\"" THEN 0
    ELSE IF NextQuote(s, NextQuote(s, NextQuote(s, k))) = 0 THEN 0
    ELSE NextQuote(s, NextQuote(s, NextQuote(s, k))) + 1

\* the kv pattern after its key, whose closing quote is at j (0: none)
KvColon(s, j) ==
    IF j = 0 \/ j + 1 > Len(s) \/ s[j + 1] # ":" THEN 0
    ELSE KvValue(s, SkipWs(s, j + 2))

\* the pattern "[^"]*":\s*"[^"]*"[^"]*"[^"]*" matched at i: the index after
\* the match, or 0
MatchKvPair(s, i) ==
    IF s[i] # "\"" THEN 0 ELSE KvColon(s, NextQuote(s, i))

\* the replacement fix_kv_pair builds from key_part and the stripped value_part
FixValuePart(kv_pair, key_part, value_part) ==
    IF /\ value_part # <<>>
       /\ Head(value_part) = "\""
       /\ value_part[Len(value_part)] = "\""
       /\ Count(value_part, "\"") > 2
    THEN key_part \o <<" ", "\"">>
             \o EscapeQuotes(SubSeq(value_part, 2, Len(value_part) - 1))
             \o <<"\"">>
    ELSE kv_pair

\* fix_kv_pair(match), colon_pos being kv_pair.find(':') + 1
FixAtColon(kv_pair, colon_pos) ==
    IF colon_pos = 0 THEN kv_pair
    ELSE FixValuePart(kv_pair, SubSeq(kv_pair, 1, colon_pos),
                      Strip(From(kv_pair, colon_pos + 1)))

\* fix_kv_pair(match) of fix_unescaped_quotes
fix_kv_pair(kv_pair) == FixAtColon(kv_pair, Find(kv_pair, ":", 1))

RECURSIVE SubKvPairs(_, _)

\* re.sub(pattern, fix_kv_pair, json_text), scanning from index i
SubKvPairs(s, i) ==
    IF i > Len(s) THEN <<>>
    ELSE IF MatchKvPair(s, i) # 0
    THEN fix_kv_pair(SubSeq(s, i, MatchKvPair(s, i) - 1))
             \o SubKvPairs(s, MatchKvPair(s, i))
    ELSE <<s[i]>> \o SubKvPairs(s, i + 1)

\* the end of fix_unescaped_quotes: the result is kept only if it changed
\* the text and parses
KeepIfParses(result, json_text) ==
    IF result # json_text /\ Parses(result) THEN result ELSE json_text

fix_unescaped_quotes(json_text) ==
    IF Parses(json_text) THEN json_text
    ELSE KeepIfParses(SubKvPairs(json_text, 1), json_text)

RECURSIVE SubTrailingCommas(_, _)

\* re.sub(r",\s*([}\]])", r"\1", json_text), scanning from index i
SubTrailingCommas(s, i) ==
    IF i > Len(s) THEN <<>>
    ELSE IF /\ s[i] = ","
            /\ SkipWs(s, i + 1) <= Len(s)
            /\ s[SkipWs(s, i + 1)] \in {"}", "]"}
    THEN <<s[SkipWs(s, i + 1)]>> \o SubTrailingCommas(s, SkipWs(s, i + 1) + 1)
    ELSE <<s[i]>> \o SubTrailingCommas(s, i + 1)

\* the regex anchor $ matches before index e
AtEnd(s, e) ==
    \/ e = Len(s) + 1
    \/ e = Len(s) /\ s[e] = "\n"

\* the least element of a set of indexes, 0 for the empty set
MinOrZero(cands) ==
    IF cands = {} THEN 0 ELSE CHOOSE p \in cands : \A q \in cands : p <= q

\* re.search(r'\b(word)$', s): the index where the match starts, or 0
SearchPartialLiteral(s, word) ==
    MinOrZero({p \in 1..Len(s) :
                  /\ StartsWith(s, word, p)
                  /\ (p = 1 \/ ~IsWord(s[p - 1]))
                  /\ AtEnd(s, p + Len(word))})

\* re.sub(r'\b(word)$', full, s)
CompleteLiteral(s, word, full) ==
    SubSeq(s, 1, SearchPartialLiteral(s, word) - 1) \o full
        \o From(s, SearchPartialLiteral(s, word) + Len(word))

RECURSIVE SkipAlpha(_, _)
\* skip [a-zA-Z]* from index i
SkipAlpha(s, i) ==
    IF i <= Len(s) /\ IsAlpha(s[i]) THEN SkipAlpha(s, i + 1) ELSE i

\* the dangling pair pattern after its key characters, which end before j:
\* ":, blanks and the partial value [a-zA-Z]+$
DanglingKey(s, i, j) ==
    IF j = i + 1 \/ j + 1 > Len(s) \/ s[j] # "\"" \/ s[j + 1] # ":" THEN 0
    ELSE IF /\ SkipAlpha(s, SkipWs(s, j + 2)) > SkipWs(s, j + 2)
            /\ AtEnd(s, SkipAlpha(s, SkipWs(s, j + 2)))
    THEN SkipAlpha(s, SkipWs(s, j + 2))
    ELSE 0

\* the pattern "\w+":\s*[a-zA-Z]+$ matched at i: the index after the match, or 0
MatchDanglingPair(s, i) ==
    IF s[i] # "\"" THEN 0 ELSE DanglingKey(s, i, SkipIdent(s, i + 1))

RECURSIVE SubDanglingPair(_, _)

\* re.sub(r'"\w+":\s*[a-zA-Z]+$', '', s), scanning from index i
SubDanglingPair(s, i) ==
    IF i > Len(s) THEN <<>>
    ELSE IF MatchDanglingPair(s, i) # 0
    THEN SubDanglingPair(s, MatchDanglingPair(s, i))
    ELSE <<s[i]>> \o SubDanglingPair(s, i + 1)

\* re.sub(r',\s*$', '', s), scanning from index i
RECURSIVE SubFinalComma(_, _)
SubFinalComma(s, i) ==
    IF i > Len(s) THEN <<>>
    ELSE IF s[i] = "," /\ SkipWs(s, i + 1) = Len(s) + 1 THEN <<>>
    ELSE <<s[i]>> \o SubFinalComma(s, i + 1)

\* one step of the scan of safe_repair that builds the stack of expected
\* closers; st holds its locals stack, in_string and escape
CloserStep(st, char) ==
    IF st.in_string
    THEN IF st.escape THEN [st EXCEPT !.escape = FALSE]
         ELSE IF char = "\\" THEN [st EXCEPT !.escape = TRUE]
         ELSE IF char = "\"" THEN [st EXCEPT !.in_string = FALSE]
         ELSE st
    ELSE IF char = "\"" THEN [st EXCEPT !.in_string = TRUE]
         ELSE IF char = "{" THEN [st EXCEPT !.stack = Append(@, "}")]
         ELSE IF char = "[" THEN [st EXCEPT !.stack = Append(@, "]")]
         ELSE IF /\ char \in {"}", "]"}
                 /\ st.stack # <<>>
                 /\ st.stack[Len(st.stack)] = char
         THEN [st EXCEPT !.stack = SubSeq(@, 1, Len(@) - 1)]
         ELSE st

\* the scan of safe_repair from index i: the stack it ends with
RECURSIVE CloserStack(_, _, _)
CloserStack(s, i, st) ==
    IF i > Len(s) THEN st.stack
    ELSE CloserStack(s, i + 1, CloserStep(st, s[i]))

\* reversed(stack)
Reversed(stack) == [i \in 1..Len(stack) |-> stack[Len(stack) + 1 - i]]

\* step 5 of safe_repair, first part: close the string the FSM ended in
CloseString(json_text, state) ==
    IF state.in_string /\ ~(json_text # <<>> /\ json_text[Len(json_text)] = "\"")
    THEN Append(json_text, "\"")
    ELSE json_text

\* step 5 of safe_repair, second part: complete a partial literal, or else
\* drop a dangling pair and a final comma
CompleteValue(t) ==
    IF SearchPartialLiteral(t, <<"t", "r", "u">>) # 0
    THEN CompleteLiteral(t, <<"t", "r", "u">>, JsonTrue)
    ELSE IF SearchPartialLiteral(t, <<"f", "a", "l", "s">>) # 0
    THEN CompleteLiteral(t, <<"f", "a", "l", "s">>, JsonFalse)
    ELSE IF SearchPartialLiteral(t, <<"n", "u", "l">>) # 0
    THEN CompleteLiteral(t, <<"n", "u", "l">>, JsonNull)
    ELSE SubFinalComma(SubDanglingPair(t, 1), 1)

\* step 5 of safe_repair, third part: append the closers still expected
CloseContainers(t) ==
    t \o Reversed(CloserStack(t, 1,
             [stack |-> <<>>, in_string |-> FALSE, escape |-> FALSE]))

\* step 5 of safe_repair: completion of a truncated text
CompleteTruncated(json_text, state) ==
    CloseContainers(CompleteValue(CloseString(json_text, state)))

\* the value None passed for the parameter state of safe_repair
None == [state |-> "None", depth |-> 0, in_string |-> FALSE]

\* steps 1 to 4 of safe_repair
RepairPasses(json_text) ==
    SubTrailingCommas(
        fix_unescaped_quotes(fix_quote_types(fix_unquoted_keys(json_text))), 1)

\* step 5 of safe_repair on the text t4 that steps 1 to 4 produced
TruncationStep(t4, state) ==
    IF state.state # "None" /\ state.state # "DONE" /\ state.depth > 0
    THEN CompleteTruncated(t4, state)
    ELSE t4

safe_repair(json_text, state) ==
    IF json_text = <<>> THEN json_text
    ELSE TruncationStep(RepairPasses(json_text), state)

----------------------------------------------------------------------------
\* ---- state ----

VARIABLES
    text,                 \* the text driven through a processor or an FSM
    fed,                  \* how many characters of text have been fed
    root,                 \* the root argument of the fsm_feed calls
    preprocess_state,     \* JSONStreamProcessor.preprocess_state
    fsm_state,            \* JSONStreamProcessor.fsm_state / a JsonFsmState
    accumulated_content,  \* JSONStreamProcessor.accumulated_content
    final_extraction,     \* what finalize_extraction returned
    pc,                   \* position of the driver of the processor or FSM
    repair_call,          \* which caller of safe_repair has run, "" before
    repair_text,          \* the json_text passed to safe_repair
    repair_fsm,           \* the state passed to safe_repair
    repair_out,           \* what the caller obtained
    upstream,             \* bytes the upstream response has not delivered yet
    upstream_read,        \* bytes aiter_bytes has delivered so far
    buffer,               \* upstream_generator.buffer
    chunk,                \* process_stream.chunk, yielded and not yet inspected
    downstream,           \* the concatenation of what process_stream yielded
    relay_pc,             \* where the generators of the relay are suspended
    repair_results,       \* stream_processor.repair_results
    result_writes,        \* number of assignments made to repair_results
    request_id,           \* chat_completions.request_id of the streaming request
    fixer_request_id,     \* StreamFixer.request_id
    repair_artifacts,     \* chat_noauth.repair_artifacts, in insertion order
    clock,                \* the last reading of datetime.utcnow()
    next_id,              \* how many uuid4 values have been drawn for request ids
    response,             \* the last non-streaming response of chat_completions
    request_body,         \* chat_completions.body of the last request, {} before
    in_flight,            \* request ids of the requests awaiting their upstream
    lookup                \* the response of get_repair_result since the last insert

procVars ==
    <<text, fed, root, preprocess_state, fsm_state, accumulated_content,
      final_extraction, pc>>

repairVars == <<repair_call, repair_text, repair_fsm, repair_out>>

relayVars ==
    <<upstream, upstream_read, buffer, chunk, downstream, relay_pc,
      repair_results, result_writes, request_id, fixer_request_id>>

storeVars ==
    <<repair_artifacts, clock, next_id, response, request_body, in_flight,
      lookup>>

vars == <<procVars, repairVars, relayVars, storeVars>>

\* Python None in a field that otherwise holds a str
NoneText == <<"None">>

\* a str-or-None field read as a str
TextOf(x) == IF x = NoneText THEN <<>> ELSE x

NoExtraction ==
    [status |-> "", json_text |-> NoneText, repaired_text |-> NoneText,
     parse_ok |-> FALSE]

\* no call of safe_repair has been made
RepairIdle ==
    /\ repair_call = ""
    /\ repair_text = <<>>
    /\ repair_fsm = None
    /\ repair_out = [repaired |-> NoneText, valid_json |-> FALSE]

\* no response yet of chat_completions, or of get_repair_result
NoResponse == [request_id |-> NoneText]

\* no request has been made: no relay, and the stores as imported
GatewayIdle ==
    /\ upstream = <<>>
    /\ upstream_read = <<>>
    /\ buffer = <<>>
    /\ chunk = NoneText
    /\ downstream = <<>>
    /\ relay_pc = "idle"
    /\ repair_results = <<>>
    /\ result_writes = 0
    /\ request_id = NoneText
    /\ fixer_request_id = NoneText
    /\ repair_artifacts = <<>>
    /\ clock = 0
    /\ next_id = 0
    /\ response = NoResponse
    /\ request_body = <<>>
    /\ in_flight = {}
    /\ lookup = NoResponse

----------------------------------------------------------------------------
\* ---- app/core/stream_processor.py: JSONStreamProcessor ----

\* bound: number of tokens an input text is made of
MaxTokens == 3

\* the texts made of at most MaxTokens tokens, and the texts with one reasoning
\* region between a prefix and a suffix
ProcTexts ==
    {Concat(ts) :
        ts \in UNION {[1..k -> {THINK_OPEN, THINK_CLOSE, FENCE, <<"{", "}">>,
                                <<"[">>, <<"]">>, <<"a">>, <<"\n">>}] :
                         k \in 0..MaxTokens}}
    \cup {A \o THINK_OPEN \o X \o THINK_CLOSE \o B :
             A \in {<<>>, <<"a">>},
             X \in {<<>>, <<"a">>, FENCE},
             B \in {<<>>, <<"{", "}">>}}

\* JSONStreamProcessor() on the text t
ProcInit ==
    /\ text \in ProcTexts
    /\ fed = 0
    /\ root = "none"
    /\ preprocess_state = PreprocessState
    /\ fsm_state = JsonFsmState(MAX_JSON_CHARS)
    /\ accumulated_content = <<>>
    /\ final_extraction = NoExtraction
    /\ pc = "feeding"
    /\ RepairIdle
    /\ GatewayIdle

\* JSONStreamProcessor.process_chunk(content)
process_chunk(content) ==
    \E r \in {preprocess_chunk(content, preprocess_state)} :
        /\ preprocess_state' = r.state
        /\ fsm_state' = IF r.out # <<>>
                        THEN fsm_feed(fsm_state, r.out, "none")
                        ELSE fsm_state
        /\ accumulated_content' = accumulated_content \o r.out

\* JSONStreamProcessor.finalize_extraction()
finalize_extraction ==
    \E t \in {preprocess_finalize(preprocess_state)} :
    \E f2 \in {fsm_finalize(IF t.out # <<>>
                             THEN fsm_feed(fsm_state, t.out, "none")
                             ELSE fsm_state)} :
    \E res \in {fsm_result(f2)} :
    \E repaired \in {IF res[1] = <<>> THEN NoneText
                      ELSE safe_repair(res[1], f2)} :
        /\ preprocess_state' = t.state
        /\ fsm_state' = f2
        /\ final_extraction' =
              IF res[1] = <<>>
              THEN [status |-> "FAILED", json_text |-> NoneText,
                    repaired_text |-> NoneText, parse_ok |-> FALSE]
              ELSE [status |-> res[2], json_text |-> res[1],
                    repaired_text |-> repaired,
                    parse_ok |-> attempt_json_parse(repaired)]

\* process_chunk called with the next k characters of text
ProcFeed(k) ==
    /\ pc = "feeding"
    /\ fed + k <= Len(text)
    /\ process_chunk(SubSeq(text, fed + 1, fed + k))
    /\ fed' = fed + k
    /\ UNCHANGED <<text, root, final_extraction, pc, repairVars, relayVars,
                   storeVars>>

\* finalize_extraction called once every chunk has been fed
ProcFinalize ==
    /\ pc = "feeding"
    /\ fed = Len(text)
    /\ finalize_extraction
    /\ pc' = "finalized"
    /\ UNCHANGED <<text, fed, root, accumulated_content, repairVars, relayVars,
                   storeVars>>

ProcNext ==
    \/ \E k \in 1..(TAIL + 1) * MaxTokens : ProcFeed(k)
    \/ ProcFinalize

SpecProc == ProcInit /\ [][ProcNext]_vars

\* the same text fed to a fresh PreprocessState as one single chunk
SingleChunkResult(t) ==
    preprocess_get_result(
        preprocess_finalize(preprocess_chunk(t, PreprocessState).state).state)

\* the complete pipeline: preprocess_complete, fsm_feed, fsm_finalize, fsm_result
CompletePipeline(t) ==
    fsm_result(fsm_finalize(
        fsm_feed(JsonFsmState(MAX_JSON_CHARS), preprocess_complete(t), "none")))

\* C1: for every text and every chunking of it, the cleaned text after feeding
\* the chunks and finalizing equals the cleaned text of the single-chunk run.
C1_ChunkingEquivalence ==
    pc = "finalized" =>
        preprocess_get_result(preprocess_state) = SingleChunkResult(text)

\* C2: for every text and every chunking of it, the stream processor reports
\* the json_text and status of the complete pipeline run on the whole text.
C2_StreamEqualsComplete ==
    pc = "finalized" =>
        /\ TextOf(final_extraction.json_text) = CompletePipeline(text)[1]
        /\ final_extraction.status = CompletePipeline(text)[2]

\* C13: after every preprocess_chunk call len(carry) <= TAIL, whatever the
\* chunk sizes; after preprocess_finalize carry is empty.
C13_CarryBound ==
    /\ Len(preprocess_state.carry) <= TAIL
    /\ pc = "finalized" => preprocess_state.carry = <<>>

\* C13 witness: a text longer than TAIL has been fed in at least two chunks,
\* the last one longer than TAIL, and finalized.
C13_Witness ==
    /\ pc = "finalized"
    /\ Len(text) > 2 * TAIL + 1
    /\ Len(accumulated_content) > TAIL + 1
    /\ preprocess_state.carry = <<>>

\* C14: for every text and every chunking of it, preprocess_streaming (the
\* chunks through preprocess_chunk, preprocess_finalize, preprocess_get_result)
\* returns what preprocess_complete returns on the whole text.
C14_StreamingEqualsComplete ==
    pc = "finalized" =>
        preprocess_get_result(preprocess_state) = preprocess_complete(text)

\* the FSM result of a fresh processor given the text t as one single chunk
SingleChunkExtraction(t) ==
    fsm_result(fsm_finalize(
        fsm_feed(
            fsm_feed(JsonFsmState(MAX_JSON_CHARS),
                     preprocess_chunk(t, PreprocessState).out, "none"),
            preprocess_finalize(preprocess_chunk(t, PreprocessState).state).out,
            "none")))

\* C15: the (buf, status) of the FSM driven by the preprocessor's emissions of
\* a text is the same for every chunking of the text: every chunking gives
\* what the single-chunk run gives.
C15_ExtractionDeterminism ==
    pc = "finalized" => fsm_result(fsm_state) = SingleChunkExtraction(text)

----------------------------------------------------------------------------
\* ---- app/core/fsm.py: the extraction FSM driven chunk by chunk ----

\* bound: length of the texts fed to the FSM
MaxFsmLen == 4

\* bound: the small max_chars a JsonFsmState is built with
SmallMaxChars == 3

FsmTexts ==
    UNION {[1..n -> {"{", "}", "[", "]", "\"", "\\", "a"}] : n \in 0..MaxFsmLen}

Roots == {"none", "object", "array"}

\* JsonFsmState(max_chars = m) about to be fed text with the root hint
FsmInit ==
    /\ text \in FsmTexts
    /\ fed = 0
    /\ root \in Roots
    /\ \E m \in {SmallMaxChars, MAX_JSON_CHARS} : fsm_state = JsonFsmState(m)
    /\ preprocess_state = PreprocessState
    /\ accumulated_content = <<>>
    /\ final_extraction = NoExtraction
    /\ pc = "feeding"
    /\ RepairIdle
    /\ GatewayIdle

\* fsm_feed(state, chunk, root), chunk being the next k characters of text
FsmFeed(k) ==
    /\ fed + k <= Len(text)
    /\ fsm_state' = fsm_feed(fsm_state, SubSeq(text, fed + 1, fed + k), root)
    /\ fed' = fed + k
    /\ UNCHANGED <<text, root, preprocess_state, accumulated_content,
                   final_extraction, pc, repairVars, relayVars, storeVars>>

\* fsm_finalize(state)
FsmFinalize ==
    /\ pc = "feeding"
    /\ fsm_state' = fsm_finalize(fsm_state)
    /\ pc' = "finalized"
    /\ UNCHANGED <<text, fed, root, preprocess_state, accumulated_content,
                   final_extraction, repairVars, relayVars, storeVars>>

FsmNext ==
    \/ \E k \in 1..MaxFsmLen : FsmFeed(k)
    \/ FsmFinalize

SpecFsm == FsmInit /\ [][FsmNext]_vars

\* the root hint lets the opening delimiter c start the capture
RootAccepts(r, c) ==
    \/ r = "none"
    \/ r = "object" /\ c = "{"
    \/ r = "array" /\ c = "["

NoOpener(s) == \A i \in 1..Len(s) : s[i] \notin {"{", "["}

\* text[a+1..b] is a JSON object or array that follows a prefix without opener
IsFirstRoot(a, b) ==
    /\ a < b
    /\ NoOpener(SubSeq(text, 1, a))
    /\ text[a + 1] \in {"{", "["}
    /\ text[b] \in {"}", "]"}
    /\ Parses(SubSeq(text, a + 1, b))
    /\ b - a < fsm_state.max_chars
    /\ RootAccepts(root, text[a + 1])

\* C9: once prefix + json1 has been fed (prefix without '{' or '[', json1 a
\* JSON object or array shorter than max_chars), in whatever chunks, the FSM
\* is DONE with buf = json1, whatever follows json1.
C9_FirstRootSelected ==
    \A a \in 0..Len(text), b \in 1..Len(text) :
        (IsFirstRoot(a, b) /\ b <= fed) =>
            /\ fsm_state.state = "DONE"
            /\ fsm_state.buf = SubSeq(text, a + 1, b)

\* C9 witness: a text with a non-empty prefix, a first root and a second
\* opener after it has been fed completely.
C9_Witness ==
    /\ fed = Len(text)
    /\ \E a \in 1..Len(text), b \in 1..Len(text) :
          /\ IsFirstRoot(a, b)
          /\ b < Len(text)
          /\ ~NoOpener(SubSeq(text, b + 1, Len(text)))
    /\ fsm_state.state = "DONE"

\* C10: in every reachable state of the FSM len(buf) <= max_chars.
C10_BufBound == Len(fsm_state.buf) <= fsm_state.max_chars

\* C11: once the phase is DONE or FAILED, no fsm_feed or fsm_finalize call
\* changes phase, buf, depth or in_string, and fsm_result keeps returning the
\* same (text, status).
C11_TerminalAbsorbing ==
    [][fsm_state.state \in {"DONE", "FAILED"} =>
          /\ fsm_state'.state = fsm_state.state
          /\ fsm_state'.buf = fsm_state.buf
          /\ fsm_state'.depth = fsm_state.depth
          /\ fsm_state'.in_string = fsm_state.in_string
          /\ fsm_result(fsm_state') = fsm_result(fsm_state)]_vars

\* C11 witness: the first root started the text, characters that follow it
\* have been fed and fsm_finalize has been called, the phase being DONE.
C11_Witness ==
    /\ root = "none"
    /\ Len(text) > 0
    /\ text[1] \in {"{", "["}
    /\ fsm_state.state = "DONE"
    /\ pc = "finalized"
    /\ fed = Len(text)
    /\ Len(fsm_state.buf) < fed

\* C18: right after fsm_finalize, fsm_result reports TRUNCATED exactly when the
\* phase is IN_JSON inside a string literal; IN_JSON outside a string with a
\* non-empty buf gives DONE with the buffered text; no opener seen or phase
\* FAILED gives FAILED with the empty text.
C18_FinalizedResult ==
    [][(pc = "feeding" /\ pc' = "finalized") =>
          /\ (fsm_result(fsm_state')[2] = "TRUNCATED") <=>
                 (fsm_state'.state = "IN_JSON" /\ fsm_state'.in_string)
          /\ (/\ fsm_state'.state = "IN_JSON"
              /\ ~fsm_state'.in_string
              /\ fsm_state'.buf # <<>>) =>
                 fsm_result(fsm_state') = <<fsm_state'.buf, "DONE">>
          /\ fsm_state'.state \in {"SEEK_START", "FAILED"} =>
                 fsm_result(fsm_state') = <<<<>>, "FAILED">>]_vars

\* C18 witness: the text ended outside a string literal with its root still
\* open, fsm_finalize was called and fsm_result reports DONE with the buffer.
C18_Witness ==
    /\ pc = "finalized"
    /\ fed = Len(text)
    /\ fsm_state.state = "IN_JSON"
    /\ ~fsm_state.in_string
    /\ fsm_state.depth > 1
    /\ fsm_state.completable
    /\ fsm_result(fsm_state) = <<fsm_state.buf, "DONE">>

\* C12: depth >= 0 after every consumed character, in any chunking.
C12_DepthNonNegative == fsm_state.depth >= 0

\* C12 witness: a closer was fed right after the closer that balanced the
\* root, and depth is still 0.
C12_Witness ==
    /\ fsm_state.state = "DONE"
    /\ fsm_state.depth = 0
    /\ \E i \in 1..fed :
          /\ i > 1
          /\ text[i] \in {"}", "]"}
          /\ text[i - 1] \in {"}", "]"}
          /\ fsm_state.buf = SubSeq(text, i - Len(fsm_state.buf), i - 1)
          /\ \A j \in 1..(i - Len(fsm_state.buf) - 1) : text[j] \notin {"{", "["}

----------------------------------------------------------------------------
\* ---- app/core/repair.py and app/api/streamfix.py: the callers of safe_repair ----

\* bound: length of the texts handed to the repair
MaxRepairLen == 4

RepairTexts ==
    UNION {[1..n -> {"{", "}", "[", "]", "\"", "'", ",", ":", "a", "\\"}] :
              n \in 1..MaxRepairLen}

\* a text about to be repaired; the processor of the text is not used
RepairInit ==
    /\ text \in RepairTexts
    /\ fed = 0
    /\ root = "none"
    /\ preprocess_state = PreprocessState
    /\ fsm_state = JsonFsmState(MAX_JSON_CHARS)
    /\ accumulated_content = <<>>
    /\ final_extraction = NoExtraction
    /\ pc = "repair"
    /\ RepairIdle
    /\ GatewayIdle

\* safe_repair(content), the call of store_repair_artifact: no FSM state
RepairDirect ==
    /\ pc = "repair"
    /\ repair_call = ""
    /\ repair_call' = "direct"
    /\ repair_text' = text
    /\ repair_fsm' = None
    /\ repair_out' = [repaired |-> safe_repair(text, None),
                      valid_json |-> Parses(safe_repair(text, None))]
    /\ UNCHANGED <<procVars, relayVars, storeVars>>

\* extraction of the text followed by safe_repair(json_text, fsm_state), the
\* calls of steps 2 to 5 of finalize_extraction
RepairExtracted ==
    /\ pc = "repair"
    /\ repair_call = ""
    /\ LET f == fsm_finalize(fsm_feed(JsonFsmState(MAX_JSON_CHARS), text, "none"))
           res == fsm_result(f)
       IN /\ res[1] # <<>>
          /\ repair_call' = "extracted"
          /\ repair_text' = res[1]
          /\ repair_fsm' = f
          /\ repair_out' = [repaired |-> safe_repair(res[1], f),
                            valid_json |-> Parses(safe_repair(res[1], f))]
    /\ UNCHANGED <<procVars, relayVars, storeVars>>

\* a /test that runs the pipeline on every input, valid JSON or not
RepairTestResult_AlwaysRepairs(broken_json) ==
    LET c == preprocess_chunk(broken_json, PreprocessState)
        f0 == JsonFsmState(MAX_JSON_CHARS)
        f1 == IF c.out # <<>> THEN fsm_feed(f0, c.out, "none") ELSE f0
        t == preprocess_finalize(c.state)
        f2 == IF t.out # <<>> THEN fsm_feed(f1, t.out, "none") ELSE f1
        f3 == fsm_finalize(f2)
        res == fsm_result(f3)
        extracted == res[2] \in {"DONE", "TRUNCATED"} /\ Strip(res[1]) # <<>>
        repaired_json == IF extracted THEN safe_repair(res[1], f3)
                         ELSE safe_repair(broken_json, None)
    IN [original |-> broken_json,
        repaired |-> repaired_json,
        valid_json |-> Parses(repaired_json),
        repair_text |-> IF extracted THEN res[1] ELSE broken_json,
        repair_fsm |-> IF extracted THEN f3 ELSE None]

\* the RepairTestResult test_json_repair answers with, and the text and FSM
\* state it called safe_repair with (the input and None when it made no call)
RepairTestResult(broken_json) ==
    IF Parses(broken_json)
    THEN [original |-> broken_json,
          repaired |-> broken_json,
          valid_json |-> TRUE,
          repair_text |-> broken_json,
          repair_fsm |-> None]
    ELSE LET c == preprocess_chunk(broken_json, PreprocessState)
             f0 == JsonFsmState(MAX_JSON_CHARS)
             f1 == IF c.out # <<>> THEN fsm_feed(f0, c.out, "none") ELSE f0
             t == preprocess_finalize(c.state)
             f2 == IF t.out # <<>> THEN fsm_feed(f1, t.out, "none") ELSE f1
             f3 == fsm_finalize(f2)
             res == fsm_result(f3)
             extracted == res[2] \in {"DONE", "TRUNCATED"} /\ Strip(res[1]) # <<>>
             repaired_json == IF extracted THEN safe_repair(res[1], f3)
                              ELSE safe_repair(broken_json, None)
         IN [original |-> broken_json,
             repaired |-> repaired_json,
             valid_json |-> Parses(repaired_json),
             repair_text |-> IF extracted THEN res[1] ELSE broken_json,
             repair_fsm |-> IF extracted THEN f3 ELSE None]

\* POST /test with broken_json = text
test_json_repair ==
    /\ pc = "repair"
    /\ repair_call = ""
    /\ repair_call' = "test"
    /\ \E r \in {RepairTestResult(text)} :
          /\ repair_text' = r.repair_text
          /\ repair_fsm' = r.repair_fsm
          /\ repair_out' = [original |-> r.original, repaired |-> r.repaired,
                            valid_json |-> r.valid_json]
    /\ UNCHANGED <<procVars, relayVars, storeVars>>

RepairNext ==
    \/ RepairDirect
    \/ RepairExtracted
    \/ test_json_repair

SpecRepair == RepairInit /\ [][RepairNext]_vars

\* C4: safe_repair, called without an FSM state or with an FSM state in phase
\* DONE, returns a text that already parses as JSON unchanged.
C4_ValidJsonUnchanged ==
    (/\ repair_call \in {"direct", "extracted"}
     /\ repair_fsm.state \in {"None", "DONE"}
     /\ Parses(repair_text)) =>
        repair_out.repaired = repair_text

\* C16: for a text that does not parse as JSON, safe_repair returns a text
\* that parses or the text itself, never a modified text that fails to parse.
C16_ParsesOrUnchanged ==
    (repair_call # "" /\ ~Parses(repair_text)) =>
        \/ Parses(repair_out.repaired)
        \/ repair_out.repaired = repair_text

\* the text parses at the input of pass 1, 2, 3 or 4 of safe_repair or after
\* pass 4
ParsesAtSomePass(t) ==
    \/ Parses(t)
    \/ Parses(fix_unquoted_keys(t))
    \/ Parses(fix_quote_types(fix_unquoted_keys(t)))
    \/ Parses(fix_unescaped_quotes(fix_quote_types(fix_unquoted_keys(t))))
    \/ Parses(RepairPasses(t))

\* C17: if the text parses at the input of safe_repair or after one of its
\* passes, the output of safe_repair parses.
C17_NeverWorse ==
    (repair_call \in {"direct", "extracted"} /\ ParsesAtSomePass(repair_text)) =>
        Parses(repair_out.repaired)

\* the text t ends outside a string literal, scanned as the FSM scans it
EndsOutsideString(t) ==
    ~FsmLoop_NoReturn(JsonFsmState(MAX_JSON_CHARS), t, 1, "none").in_string

\* C19: when the extraction ended inside a string literal, safe_repair returns
\* the extracted text as it was, then a double quote that closes the string,
\* then container closers only.
C19_ClosesStringFirst ==
    (/\ repair_call = "extracted"
     /\ repair_fsm.state = "IN_JSON"
     /\ repair_fsm.in_string) =>
        /\ Len(repair_out.repaired) > Len(repair_text)
        /\ SubSeq(repair_out.repaired, 1, Len(repair_text) + 1)
              = Append(repair_text, "\"")
        /\ EndsOutsideString(Append(repair_text, "\""))
        /\ \A i \in (Len(repair_text) + 2)..Len(repair_out.repaired) :
              repair_out.repaired[i] \in {"}", "]"}

----------------------------------------------------------------------------
\* ---- app/api/chat_noauth.py: the artifact store and its endpoints ----

\* A dict is the sequence of its items [key, value] in insertion order.
DictHas(d, k) == \E i \in 1..Len(d) : d[i].key = k

\* d[k], for a key of d
DictGet(d, k) == d[CHOOSE i \in 1..Len(d) : d[i].key = k].value

\* d[k] = v
DictPut(d, k, v) ==
    IF DictHas(d, k)
    THEN [i \in 1..Len(d) |->
             IF d[i].key = k THEN [key |-> k, value |-> v] ELSE d[i]]
    ELSE Append(d, [key |-> k, value |-> v])

\* del d[k]
DictDel(d, k) == SelectSeq(d, LAMBDA item : item.key # k)

MAX_ARTIFACTS == 100

\* f"req_{uuid.uuid4().hex[:12]}" for the n-th uuid4 drawn for a request id
ReqId(n) == <<"req", n>>

\* bound: the readings of datetime.utcnow(), counted in half seconds
MaxClock == 1

DigitChars == <<"0", "1", "2", "3", "4", "5", "6", "7", "8", "9">>

\* datetime.isoformat() of the reading t: seconds, and microseconds unless they
\* are 0; the date, hour and minute, the same in every reading, are left out
isoformat(t) ==
    <<DigitChars[((t \div 2) \div 10) + 1], DigitChars[((t \div 2) % 10) + 1]>>
        \o (IF t % 2 = 0 THEN <<>> ELSE <<".", "5", "0", "0", "0", "0", "0">>)

\* ord(c) for the characters of a timestamp
CodePoint(c) ==
    IF c = "." THEN 46 ELSE 48 + (CHOOSE n \in 0..9 : DigitChars[n + 1] = c)

\* a < b on str
RECURSIVE StrLess(_, _)
StrLess(a, b) ==
    IF b = <<>> THEN FALSE
    ELSE IF a = <<>> THEN TRUE
    ELSE IF Head(a) = Head(b) THEN StrLess(Tail(a), Tail(b))
    ELSE CodePoint(Head(a)) < CodePoint(Head(b))

\* of two indexes l < r of d, the one min() keeps: r only if strictly older
OlderIndex(d, l, r) ==
    IF StrLess(d[r].value.timestamp, d[l].value.timestamp) THEN r ELSE l

\* the index min() returns among lo..hi: the first one of least timestamp
RECURSIVE MinIndex(_, _, _)
MinIndex(d, lo, hi) ==
    IF lo = hi THEN lo
    ELSE OlderIndex(d, MinIndex(d, lo, (lo + hi) \div 2),
                    MinIndex(d, (lo + hi) \div 2 + 1, hi))

\* the key evicted instead of the oldest one: the newest
OldestKey_Newest(d) == d[Len(d)].key

\* min(repair_artifacts.keys(), key=lambda k: repair_artifacts[k]["timestamp"])
OldestKey(d) == d[MinIndex(d, 1, Len(d))].key

\* the list repairs_applied of store_repair_artifact
RepairsApplied(content, repaired_content) ==
    IF content = repaired_content THEN <<>>
    ELSE (IF Count(content, ",") > 0
          THEN <<"remove_trailing_comma">> ELSE <<>>)
      \o (IF /\ Count(content, "{") > 0
             /\ Count(SubSeq(content, 1,
                     IF Find(content, ":", 1) = 0 THEN Len(content)
                     ELSE Find(content, ":", 1) - 1), "\"") = 0
          THEN <<"quote_unquoted_keys">> ELSE <<>>)

\* the dict artifact of store_repair_artifact
Artifact(rid, timestamp, content, repaired_content) ==
    [request_id |-> rid,
     timestamp |-> timestamp,
     original_content |-> content,
     repaired_content |-> repaired_content,
     repairs_applied |-> RepairsApplied(content, repaired_content),
     parse_success |-> Strip(repaired_content) = <<>> \/ Parses(repaired_content),
     status |-> IF RepairsApplied(content, repaired_content) # <<>>
                THEN "REPAIRED" ELSE "PASSTHROUGH"]

\* store_repair_artifact without the eviction of the oldest artifact
store_repair_artifact_NoEvict(rid, content) ==
    /\ \E now \in clock..MaxClock : clock' = now
    /\ \E repaired_content \in {IF content # <<>> THEN safe_repair(content, None)
                               ELSE content} :
          repair_artifacts' =
              DictPut(repair_artifacts, rid,
                      Artifact(rid, isoformat(clock'), content, repaired_content))

\* store_repair_artifact(rid, content, model); utcnow() does not run backwards
store_repair_artifact(rid, content) ==
    /\ \E now \in clock..MaxClock : clock' = now
    /\ \E repaired_content \in {IF content # <<>> THEN safe_repair(content, None)
                               ELSE content} :
          repair_artifacts' =
              DictPut(IF Len(repair_artifacts) >= MAX_ARTIFACTS
                      THEN DictDel(repair_artifacts, OldestKey(repair_artifacts))
                      ELSE repair_artifacts,
                      rid,
                      Artifact(rid, isoformat(clock'), content, repaired_content))

\* GET /result/{rid}
get_repair_result(rid) ==
    /\ lookup' = IF DictHas(repair_artifacts, rid)
                 THEN [request_id |-> rid, status_code |-> 200,
                       body |-> DictGet(repair_artifacts, rid)]
                 ELSE [request_id |-> rid, status_code |-> 404,
                       body |-> NoneText]
    /\ UNCHANGED <<procVars, repairVars, relayVars, repair_artifacts, clock,
                   next_id, response, request_body, in_flight>>

\* the gateway started, no request made; the processor variables are not used
GatewayInit ==
    /\ text = <<>>
    /\ fed = 0
    /\ root = "none"
    /\ preprocess_state = PreprocessState
    /\ fsm_state = JsonFsmState(MAX_JSON_CHARS)
    /\ accumulated_content = <<>>
    /\ final_extraction = NoExtraction
    /\ pc = "gateway"
    /\ RepairIdle
    /\ GatewayIdle

\* bound: number of inserts into the store
MaxInserts == 103

\* store_repair_artifact called with a fresh request id
StoreInsert ==
    /\ next_id < MaxInserts
    /\ next_id' = next_id + 1
    /\ store_repair_artifact(ReqId(next_id'), <<"{", "}">>)
    /\ lookup' = NoResponse
    /\ UNCHANGED <<procVars, repairVars, relayVars, response, request_body,
                   in_flight>>

\* the ids looked up: the last one evicted and the oldest one kept
LookupIds ==
    {next_id - MAX_ARTIFACTS, next_id - MAX_ARTIFACTS + 1} \cap (1..next_id)

StoreNext ==
    \/ StoreInsert
    \/ \E n \in LookupIds : get_repair_result(ReqId(n))

SpecStore == GatewayInit /\ [][StoreNext]_vars

\* C8: the store never holds more than MAX_ARTIFACTS entries; after more than
\* MAX_ARTIFACTS inserts with distinct ids it holds exactly MAX_ARTIFACTS
\* entries, those most recently inserted, the oldest having been evicted at
\* each insert into the full store; an evicted id is answered 404.
C8_StoreCapacityFifo ==
    /\ Len(repair_artifacts) <= MAX_ARTIFACTS
    /\ next_id > MAX_ARTIFACTS =>
          /\ Len(repair_artifacts) = MAX_ARTIFACTS
          /\ \A i \in 1..MAX_ARTIFACTS :
                repair_artifacts[i].key = ReqId(next_id - MAX_ARTIFACTS + i)
    /\ \A n \in 1..(next_id - MAX_ARTIFACTS) :
          lookup.request_id = ReqId(n) => lookup.status_code = 404

\* C8 witness: after MaxInserts inserts, some of them within the same reading
\* of the clock, the store is full and the lookup of an evicted id got 404.
C8_Witness ==
    /\ next_id = MaxInserts
    /\ MaxInserts > MAX_ARTIFACTS
    /\ Len(repair_artifacts) = MAX_ARTIFACTS
    /\ repair_artifacts[1].value.timestamp # repair_artifacts[MAX_ARTIFACTS].value.timestamp
    /\ lookup.request_id = ReqId(next_id - MAX_ARTIFACTS)
    /\ lookup.status_code = 404

----------------------------------------------------------------------------
\* ---- app/api/chat_noauth.py: the non-streaming path of chat_completions ----

\* bound: number of non-streaming requests
MaxRequests == 2

\* bound: length of the content of an upstream message
MaxContentLen == 2

\* response_data["choices"][0]["message"]["content"] as the upstream sent it
ChatContents ==
    UNION {[1..n -> {"{", "}", "'", ",", ":", "a"}] : n \in 0..MaxContentLen}

\* the request bodies: stream false, without the extension field schema or
\* with the JSON Schema {"type": "object"} or {"type": "array"}
ChatBodies ==
    {[stream |-> FALSE]}
        \cup {[stream |-> FALSE, schema |-> [type |-> t]] : t \in {"object", "array"}}

\* POST /v1/chat/completions with the given body (stream false), the upstream
\* answering 200 with the given content
chat_completions(body, content) ==
    /\ next_id < MaxRequests
    /\ next_id' = next_id + 1
    /\ request_body' = body
    /\ store_repair_artifact(ReqId(next_id'), content)
    /\ \E repair_info \in {DictGet(repair_artifacts', ReqId(next_id'))} :
          response' =
              [request_id |-> ReqId(next_id'),
               original_content |-> content,
               content |-> IF repair_info.repaired_content # content
                           THEN repair_info.repaired_content
                           ELSE content]
    /\ lookup' = NoResponse
    /\ UNCHANGED <<procVars, repairVars, relayVars, in_flight>>

ChatNext ==
    \/ \E body \in ChatBodies, content \in ChatContents :
          chat_completions(body, content)
    \/ \E n \in 1..next_id : get_repair_result(ReqId(n))

SpecChat == GatewayInit /\ [][ChatNext]_vars

\* C5: a non-streaming response whose repaired text does not parse as JSON
\* carries the upstream content unchanged.
C5_UnparsablePreserved ==
    (/\ response # NoResponse
     /\ ~DictGet(repair_artifacts, response.request_id).parse_success) =>
        response.content = response.original_content

\* the type jsonschema sees in json.loads(json_data), for a text that parses
JsonType(json_data) ==
    IF json_data[SkipWs(json_data, 1)] = "{" THEN "object"
    ELSE IF json_data[SkipWs(json_data, 1)] = "[" THEN "array"
    ELSE "scalar"

\* validate_against_schema(json_data, schema) for a schema {"type": t}:
\* <<is_valid, error_messages>>
validate_against_schema(json_data, schema) ==
    IF ~Parses(json_data) THEN <<FALSE, <<"Invalid JSON syntax">>>>
    ELSE IF JsonType(json_data) = schema.type THEN <<TRUE, <<>>>>
    ELSE <<FALSE, <<"Schema violation at 'root'", "Try converting the value">>>>

\* C20: when the request carried a schema and the repaired JSON parses but
\* fails validation against it, the artifact stored for the request has status
\* SCHEMA_INVALID and a non-empty schema_errors, and the response carries what
\* it carries without a schema.
C20_SchemaInvalidRecorded ==
    (/\ response # NoResponse
     /\ "schema" \in DOMAIN request_body
     /\ Parses(DictGet(repair_artifacts, response.request_id).repaired_content)
     /\ ~validate_against_schema(
            DictGet(repair_artifacts, response.request_id).repaired_content,
            request_body.schema)[1]) =>
        /\ DictGet(repair_artifacts, response.request_id).status = "SCHEMA_INVALID"
        /\ "schema_errors" \in DOMAIN DictGet(repair_artifacts, response.request_id)
        /\ DictGet(repair_artifacts, response.request_id).schema_errors # <<>>
        /\ response.content =
              DictGet(repair_artifacts, response.request_id).repaired_content

----------------------------------------------------------------------------
\* ---- app/core/stream_processor.py: the relay of a streaming request ----

\* A byte of an ASCII character is written as the character; the character
\* U+00E9 is the two bytes xC3 xA9.

\* chunk_bytes.decode('utf-8', errors='ignore')
RECURSIVE decode(_)
decode(b) ==
    IF b = <<>> THEN <<>>
    ELSE IF Head(b) = "xC3"
    THEN IF Len(b) >= 2 /\ b[2] = "xA9"
         THEN <<"U+00E9">> \o decode(SubSeq(b, 3, Len(b)))
         ELSE decode(Tail(b))
    ELSE IF Head(b) = "xA9" THEN decode(Tail(b))
    ELSE <<Head(b)>> \o decode(Tail(b))

\* the UTF-8 bytes of a str that process_stream yields
RECURSIVE encode(_)
encode(s) ==
    IF s = <<>> THEN <<>>
    ELSE (IF Head(s) = "U+00E9" THEN <<"xC3", "xA9">> ELSE <<Head(s)>>)
             \o encode(Tail(s))

\* "data: "
DataPrefix == <<"d", "a", "t", "a", ":", " ">>

\* "[DONE]"
DoneMarker == <<"[", "D", "O", "N", "E", "]">>

\* the text of a chunk object before and after its delta content
DeltaHead ==
    <<"{", "\"", "c", "h", "o", "i", "c", "e", "s", "\"", ":", "[", "{",
      "\"", "d", "e", "l", "t", "a", "\"", ":", "{", "\"", "c", "o", "n",
      "t", "e", "n", "t", "\"", ":", "\"">>

DeltaTail == <<"\"", "}", "}", "]", "}">>

\* what the upstream body is made of: a delta of content "{", a delta of
\* content "}", the end marker followed by a blank line, the end marker alone,
\* a payload that is JSON but no object, a payload that is no JSON, a comment
\* line holding a two-byte character
UpstreamEvents ==
    {DataPrefix \o DeltaHead \o <<"{">> \o DeltaTail \o <<"\n", "\n">>,
     DataPrefix \o DeltaHead \o <<"}">> \o DeltaTail \o <<"\n", "\n">>,
     DataPrefix \o DoneMarker \o <<"\n", "\n">>,
     DataPrefix \o DoneMarker,
     DataPrefix \o <<"[", "]", "\n", "\n">>,
     DataPrefix \o <<"{", "\n">>,
     <<":", " ", "xC3", "xA9", "\n">>}

\* bound: number of events in an upstream body
MaxEvents == 2

UpstreamBodies ==
    {Concat(es) : es \in UNION {[1..k -> UpstreamEvents] : k \in 0..MaxEvents}}

\* the sizes of the chunks aiter_bytes delivers
ChunkSizes == {1, 2, 5, 13, 50}

\* str(uuid.uuid4()) for the n-th StreamFixer
FixerId(n) == <<"uuid", n>>

RECURSIVE DrainBuffer(_)

\* upstream_generator: the line ending at the newline at p is yielded if it is
\* not blank, and skipped otherwise
SplitLine(buf, p) ==
    IF Strip(SubSeq(buf, 1, p - 1)) # <<>>
    THEN [line |-> SubSeq(buf, 1, p), buffer |-> From(buf, p + 1)]
    ELSE DrainBuffer(From(buf, p + 1))

\* upstream_generator: the loop "while '\n' in buffer" up to its next yield;
\* line is what it yields, NoneText when the loop ends without a yield
DrainBuffer(buf) ==
    IF Find(buf, "\n", 1) = 0 THEN [line |-> NoneText, buffer |-> buf]
    ELSE SplitLine(buf, Find(buf, "\n", 1))

\* a relay that consumes the line without handing it downstream
YieldOrAwait_Withholds(d) ==
    /\ buffer' = d.buffer
    /\ chunk' = d.line
    /\ downstream' = downstream
    /\ relay_pc' = IF d.line # NoneText THEN "yielded" ELSE "reading"

\* both generators run up to the next suspension: process_stream yields the
\* line d.line, or upstream_generator awaits the next bytes
YieldOrAwait(d) ==
    /\ buffer' = d.buffer
    /\ chunk' = d.line
    /\ downstream' = IF d.line # NoneText THEN downstream \o encode(d.line)
                     ELSE downstream
    /\ relay_pc' = IF d.line # NoneText THEN "yielded" ELSE "reading"

\* POST /v1/chat/completions with stream true, the upstream answering 200 with
\* the given body: create_fsm_stream up to the first read of the body
ChatStream(body) ==
    /\ relay_pc = "idle"
    /\ next_id' = next_id + 1
    /\ request_id' = ReqId(next_id')
    /\ fixer_request_id' = FixerId(next_id')
    /\ upstream' = body
    /\ relay_pc' = "reading"
    /\ request_body' = [stream |-> TRUE]
    /\ UNCHANGED <<procVars, repairVars, upstream_read, buffer, chunk,
                   downstream, repair_results, result_writes,
                   repair_artifacts, clock, response, in_flight, lookup>>

\* aiter_bytes delivers the next k bytes
RecvChunk(k) ==
    /\ relay_pc = "reading"
    /\ k <= Len(upstream)
    /\ upstream' = From(upstream, k + 1)
    /\ upstream_read' = upstream_read \o SubSeq(upstream, 1, k)
    /\ \E d \in {DrainBuffer(buffer \o decode(SubSeq(upstream, 1, k)))} :
          YieldOrAwait(d)
    /\ UNCHANGED <<procVars, repairVars, repair_results, result_writes,
                   request_id, fixer_request_id, storeVars>>

\* aiter_bytes raises while the body is read (the connection to the upstream
\* breaks): neither generator catches it, the response ends with the exception
UpstreamError ==
    /\ relay_pc = "reading"
    /\ upstream # <<>>
    /\ relay_pc' = "upstream_error"
    /\ UNCHANGED <<procVars, repairVars, upstream, upstream_read, buffer,
                   chunk, downstream, repair_results, result_writes,
                   request_id, fixer_request_id, storeVars>>

\* aiter_bytes ends: the rest of the buffer is yielded unless it is blank
UpstreamEnd ==
    /\ relay_pc = "reading"
    /\ upstream = <<>>
    /\ IF Strip(buffer) # <<>>
       THEN /\ chunk' = buffer
            /\ downstream' = downstream \o encode(buffer)
            /\ relay_pc' = "yielded_last"
       ELSE /\ relay_pc' = "closed"
            /\ UNCHANGED <<chunk, downstream>>
    /\ UNCHANGED <<procVars, repairVars, upstream, upstream_read, buffer,
                   repair_results, result_writes, request_id,
                   fixer_request_id, storeVars>>

\* the consumer asks for the next item and process_stream has handled the
\* chunk it had yielded: the generators run up to their next suspension
PullNext ==
    IF relay_pc = "yielded_last"
    THEN /\ relay_pc' = "closed"
         /\ chunk' = NoneText
         /\ UNCHANGED <<buffer, downstream>>
    ELSE \E d \in {DrainBuffer(buffer)} : YieldOrAwait(d)

\* chunk[6:].strip()
DataPart(c) == Strip(From(c, Len(DataPrefix) + 1))

\* the chunk is "data: [DONE]"
IsDone(c) == StartsWith(c, DataPrefix, 1) /\ DataPart(c) = DoneMarker

\* json.loads(data_part) returns a value that is no dict: it has no get()
IsNoObject(data_part) == Parses(data_part) /\ Head(data_part) # "{"

\* chunk_data["choices"][0]["delta"]["content"] of an object of the model,
\* which is of the delta form or has no "choices"; NoneText when it has none
DeltaContent(data_part) ==
    IF /\ Len(data_part) >= Len(DeltaHead) + Len(DeltaTail)
       /\ StartsWith(data_part, DeltaHead, 1)
       /\ From(data_part, Len(data_part) - Len(DeltaTail) + 1) = DeltaTail
       /\ \A i \in (Len(DeltaHead) + 1)..(Len(data_part) - Len(DeltaTail)) :
             data_part[i] \notin {"\"", "\\"}
    THEN SubSeq(data_part, Len(DeltaHead) + 1, Len(data_part) - Len(DeltaTail))
    ELSE NoneText

\* the value assigned to repair_results[self.request_id]
RepairResult(fe) ==
    [status |-> IF /\ fe.parse_ok
                   /\ TextOf(fe.repaired_text) # <<>>
                   /\ fe.json_text # fe.repaired_text
                THEN "REPAIRED" ELSE "PASSTHROUGH",
     original_json |-> fe.json_text,
     repaired_json |-> fe.repaired_text,
     parse_ok |-> fe.parse_ok]

\* process_stream resumed on the chunk "data: [DONE]"
InspectDone ==
    /\ relay_pc \in {"yielded", "yielded_last"}
    /\ IsDone(chunk)
    /\ finalize_extraction
    /\ repair_results' =
          DictPut(repair_results, fixer_request_id, RepairResult(final_extraction'))
    /\ result_writes' = result_writes + 1
    /\ PullNext
    /\ UNCHANGED <<text, fed, root, accumulated_content, pc, repairVars,
                   upstream, upstream_read, request_id, fixer_request_id,
                   storeVars>>

\* process_stream resumed on a chunk whose payload holds a content delta
InspectDelta ==
    /\ relay_pc \in {"yielded", "yielded_last"}
    /\ StartsWith(chunk, DataPrefix, 1)
    /\ ~IsDone(chunk)
    /\ Parses(DataPart(chunk))
    /\ ~IsNoObject(DataPart(chunk))
    /\ DeltaContent(DataPart(chunk)) # NoneText
    /\ process_chunk(DeltaContent(DataPart(chunk)))
    /\ PullNext
    /\ UNCHANGED <<text, fed, root, final_extraction, pc, repairVars,
                   upstream, upstream_read, repair_results, result_writes,
                   request_id, fixer_request_id, storeVars>>

\* a relay that gives up on a chunk it cannot use
InspectOther_Aborts ==
    /\ relay_pc \in {"yielded", "yielded_last"}
    /\ \/ ~StartsWith(chunk, DataPrefix, 1)
       \/ /\ ~IsDone(chunk)
          /\ \/ ~Parses(DataPart(chunk))
             \/ /\ ~IsNoObject(DataPart(chunk))
                /\ DeltaContent(DataPart(chunk)) = NoneText
    /\ relay_pc' = "raised"
    /\ UNCHANGED <<procVars, repairVars, upstream, upstream_read, buffer,
                   chunk, downstream, repair_results, result_writes,
                   request_id, fixer_request_id, storeVars>>

\* process_stream resumed on a chunk that is no data line, or whose payload is
\* no JSON, or an object without content delta
InspectOther ==
    /\ relay_pc \in {"yielded", "yielded_last"}
    /\ \/ ~StartsWith(chunk, DataPrefix, 1)
       \/ /\ ~IsDone(chunk)
          /\ \/ ~Parses(DataPart(chunk))
             \/ /\ ~IsNoObject(DataPart(chunk))
                /\ DeltaContent(DataPart(chunk)) = NoneText
    /\ PullNext
    /\ UNCHANGED <<procVars, repairVars, upstream, upstream_read,
                   repair_results, result_writes, request_id,
                   fixer_request_id, storeVars>>

\* process_stream resumed on a chunk whose payload is JSON but no object:
\* chunk_data.get raises AttributeError, which nothing catches
InspectRaises ==
    /\ relay_pc \in {"yielded", "yielded_last"}
    /\ StartsWith(chunk, DataPrefix, 1)
    /\ ~IsDone(chunk)
    /\ IsNoObject(DataPart(chunk))
    /\ relay_pc' = "raised"
    /\ UNCHANGED <<procVars, repairVars, upstream, upstream_read, buffer,
                   chunk, downstream, repair_results, result_writes,
                   request_id, fixer_request_id, storeVars>>

\* a relay that finalizes and records a result when the client goes away
ClientDisconnect_Finalizes ==
    /\ relay_pc \in {"reading", "yielded", "yielded_last"}
    /\ relay_pc' = "cancelled"
    /\ finalize_extraction
    /\ repair_results' =
          DictPut(repair_results, fixer_request_id, RepairResult(final_extraction'))
    /\ result_writes' = result_writes + 1
    /\ UNCHANGED <<text, fed, root, accumulated_content, pc, repairVars,
                   upstream, upstream_read, buffer, chunk, downstream,
                   request_id, fixer_request_id, storeVars>>

\* the client goes away: the consumer closes the generator where it is suspended
ClientDisconnect ==
    /\ relay_pc \in {"reading", "yielded", "yielded_last"}
    /\ relay_pc' = "cancelled"
    /\ UNCHANGED <<procVars, repairVars, upstream, upstream_read, buffer,
                   chunk, downstream, repair_results, result_writes,
                   request_id, fixer_request_id, storeVars>>

RelayNext ==
    \/ \E body \in UpstreamBodies : ChatStream(body)
    \/ \E k \in ChunkSizes : RecvChunk(k)
    \/ UpstreamEnd
    \/ UpstreamError
    \/ InspectDone
    \/ InspectDelta
    \/ InspectOther
    \/ InspectRaises
    \/ ClientDisconnect
    \/ \E rid \in {request_id, fixer_request_id} \ {NoneText} :
          get_repair_result(rid)

SpecRelay == GatewayInit /\ [][RelayNext]_vars

\* C3: once the stream is over, what the relay wrote downstream is, byte for
\* byte, what it read from upstream.
C3_PassthroughBytes ==
    relay_pc = "closed" => downstream = upstream_read

\* the upstream body read so far ends with the line "data: [DONE]"
EndedWithDone ==
    \E t \in {RStrip(decode(upstream_read))} :
        /\ Len(t) >= Len(DataPrefix \o DoneMarker)
        /\ From(t, Len(t) - Len(DataPrefix \o DoneMarker) + 1)
               = DataPrefix \o DoneMarker
        /\ \/ Len(t) = Len(DataPrefix \o DoneMarker)
           \/ t[Len(t) - Len(DataPrefix \o DoneMarker)] = "\n"

\* C6: a lookup of the request id of chat_completions, made once the stream
\* that ended with "data: [DONE]" is over, is answered with the artifact.
C6_ArtifactRetrievable ==
    [][(/\ relay_pc = "closed"
        /\ EndedWithDone
        /\ lookup' # lookup
        /\ lookup'.request_id = request_id) =>
            lookup'.status_code = 200]_vars

\* C7: at most one artifact is ever inserted for a streaming request, and once
\* the stream is over, the client still connected, exactly one has been.
C7_ExactlyOneInsert ==
    /\ result_writes + Len(repair_artifacts) <= 1
    /\ relay_pc = "closed" => result_writes + Len(repair_artifacts) = 1

\* C21: when the upstream fails while the streamed body is read, a FAILED
\* artifact is recorded for the request.
C21_FailureRecorded ==
    (relay_pc = "upstream_error" /\ upstream_read # <<>>) =>
        \/ /\ DictHas(repair_results, fixer_request_id)
           /\ DictGet(repair_results, fixer_request_id).status = "FAILED"
        \/ /\ DictHas(repair_artifacts, request_id)
           /\ DictGet(repair_artifacts, request_id).status = "FAILED"

\* C22: a client disconnect stops the relay where it is: nothing more is read
\* from the upstream, nothing is finalized, no artifact is stored, and the
\* relay stays stopped.
C22_DisconnectStops ==
    [][/\ relay_pc' = "cancelled" =>
            UNCHANGED <<upstream, upstream_read, buffer, downstream,
                        final_extraction, fsm_state, preprocess_state,
                        repair_results, repair_artifacts, result_writes>>
       /\ relay_pc = "cancelled" =>
            /\ relay_pc' = "cancelled"
            /\ UNCHANGED <<upstream, upstream_read, repair_results,
                           repair_artifacts, result_writes>>]_vars

\* the client went away right after "data: [DONE]" was handed to it, and has
\* asked for the result since
C22_Witness ==
    /\ relay_pc = "cancelled"
    /\ IsDone(chunk)
    /\ result_writes = 0
    /\ repair_results = <<>>
    /\ lookup # NoResponse
    /\ lookup.status_code = 404

\* C28: a data line whose payload is no JSON has been forwarded when it is
\* inspected; handling it changes neither the preprocessor state, the FSM
\* state nor the stores, takes nothing back from downstream, and the relay
\* goes on.
C28_UnparsableLineIgnored ==
    [][(/\ relay_pc \in {"yielded", "yielded_last"}
        /\ StartsWith(chunk, DataPrefix, 1)
        /\ ~IsDone(chunk)
        /\ ~Parses(DataPart(chunk))) =>
            /\ From(downstream, Len(downstream) - Len(encode(chunk)) + 1)
                   = encode(chunk)
            /\ SubSeq(downstream', 1, Len(downstream)) = downstream
            /\ UNCHANGED <<preprocess_state, fsm_state, accumulated_content,
                           final_extraction, repair_results, repair_artifacts,
                           result_writes>>
            /\ relay_pc' \in {"yielded", "yielded_last", "reading", "closed",
                               "cancelled"}]_vars

\* the line "data: {" was forwarded and skipped, and the delta that came after
\* it has reached the preprocessor
C28_Witness ==
    /\ Len(downstream) > Len(DataPrefix) + 2
    /\ SubSeq(downstream, 1, Len(DataPrefix) + 2)
           = encode(DataPrefix \o <<"{", "\n">>)
    /\ preprocess_state.carry = <<"{">>
    /\ relay_pc \in {"reading", "closed"}

\* C29: a data line whose payload is JSON without a string at
\* choices[0].delta.content feeds nothing to the preprocessor and never aborts
\* the stream.
C29_OddShapeTolerated ==
    [][(/\ relay_pc \in {"yielded", "yielded_last"}
        /\ StartsWith(chunk, DataPrefix, 1)
        /\ ~IsDone(chunk)
        /\ Parses(DataPart(chunk))
        /\ DeltaContent(DataPart(chunk)) = NoneText) =>
            /\ UNCHANGED preprocess_state
            /\ relay_pc' # "raised"]_vars

\* a[i..] can be read off b[j..] in order, skipping elements of b
RECURSIVE Embeds(_, _, _, _)
Embeds(a, i, b, j) ==
    IF i > Len(a) THEN TRUE
    ELSE IF j > Len(b) THEN FALSE
    ELSE IF a[i] = b[j] THEN Embeds(a, i + 1, b, j + 1)
    ELSE Embeds(a, i, b, j + 1)

\* the content delta a forwarded line carries, <<>> when it carries none
LineDelta(line) ==
    IF /\ StartsWith(line, DataPrefix, 1)
       /\ DeltaContent(DataPart(line)) # NoneText
    THEN DeltaContent(DataPart(line)) ELSE <<>>

\* the content deltas of the lines of s, in the order of the lines
RECURSIVE LineDeltas(_)
LineDeltas(s) ==
    IF s = <<>> THEN <<>>
    ELSE IF Find(s, "\n", 1) = 0 THEN LineDelta(s)
    ELSE LineDelta(SubSeq(s, 1, Find(s, "\n", 1)))
             \o LineDeltas(From(s, Find(s, "\n", 1) + 1))

\* the lines forwarded and already inspected: downstream without the line
\* process_stream is suspended on
Inspected ==
    SubSeq(downstream, 1, Len(downstream) - Len(encode(TextOf(chunk))))

----------------------------------------------------------------------------
\* ---- streaming requests one after the other, in one process ----

\* bound: number of streaming requests
MaxStreams == 101

\* a further POST /v1/chat/completions with stream true once the stream before
\* it is over: a new StreamFixer with its own processor and request_id, while
\* the module-level repair_results lives on
NextChatStream(body) ==
    /\ relay_pc = "closed"
    /\ next_id < MaxStreams
    /\ next_id' = next_id + 1
    /\ request_id' = ReqId(next_id')
    /\ fixer_request_id' = FixerId(next_id')
    /\ upstream' = body
    /\ upstream_read' = <<>>
    /\ buffer' = <<>>
    /\ chunk' = NoneText
    /\ downstream' = <<>>
    /\ preprocess_state' = PreprocessState
    /\ fsm_state' = JsonFsmState(MAX_JSON_CHARS)
    /\ accumulated_content' = <<>>
    /\ final_extraction' = NoExtraction
    /\ relay_pc' = "reading"
    /\ UNCHANGED <<text, fed, root, pc, repairVars, repair_results,
                   result_writes, repair_artifacts, clock, response,
                   request_body, in_flight, lookup>>

StreamsNext ==
    \/ \E body \in {DataPrefix \o DoneMarker \o <<"\n", "\n">>} :
          \/ ChatStream(body)
          \/ NextChatStream(body)
    \/ \E k \in {1, 13} : RecvChunk(k)
    \/ UpstreamEnd
    \/ InspectDone

SpecStreams == GatewayInit /\ [][StreamsNext]_vars

\* C25: the repair_results mapping never holds more entries than the artifact
\* store's capacity.
C25_ResultsBounded == Len(repair_results) <= MAX_ARTIFACTS

\* C24: a /test request whose broken_json already parses is answered with
\* repaired and original equal to the input and valid_json true: no repair
\* pass has touched it.
C24_ValidInputUntouched ==
    (repair_call = "test" /\ Parses(text)) =>
        /\ repair_out.repaired = text
        /\ repair_out.original = text
        /\ repair_out.valid_json

\* /test has answered a valid JSON text that safe_repair would have changed
C24_Witness ==
    /\ repair_call = "test"
    /\ Parses(text)
    /\ safe_repair(text, None) # text
    /\ repair_out.repaired = text

\* C23: the repaired content of the artifact of a non-streaming request, and
\* the content that replaces the upstream content in its response, is the
\* repaired JSON /test computes for the same content with the preprocessor,
\* the FSM and the repair.
C23_SameAsPipeline ==
    response # NoResponse =>
        /\ DictGet(repair_artifacts, response.request_id).repaired_content
               = RepairTestResult(response.original_content).repaired
        /\ response.content # response.original_content =>
               response.content
                   = RepairTestResult(response.original_content).repaired

\* the markers of t from index i on, as a scan of the whole of t takes them:
\* the set of <<first index, last index>>
RECURSIVE MarkerSpans(_, _, _)
MarkerSpans(t, i, in_think) ==
    IF i > Len(t) THEN {}
    ELSE IF StartsWith(t, THINK_OPEN, i)
    THEN {<<i, i + Len(THINK_OPEN) - 1>>}
             \cup MarkerSpans(t, i + Len(THINK_OPEN), TRUE)
    ELSE IF in_think /\ StartsWith(t, THINK_CLOSE, i)
    THEN {<<i, i + Len(THINK_CLOSE) - 1>>}
             \cup MarkerSpans(t, i + Len(THINK_CLOSE), FALSE)
    ELSE IF StartsWith(t, FENCE, i)
    THEN {<<i, i + Len(FENCE) - 1>>}
             \cup MarkerSpans(t, i + Len(FENCE), in_think)
    ELSE MarkerSpans(t, i + 1, in_think)

\* C26: after every preprocess_chunk call, every marker that has arrived in
\* full lies wholly in the scanned part of the input or wholly in carry.
C26_NoMarkerSplit ==
    pc = "feeding" =>
        \A sp \in MarkerSpans(text, 1, FALSE) :
            sp[2] <= fed =>
                \/ sp[2] <= fed - Len(preprocess_state.carry)
                \/ sp[1] > fed - Len(preprocess_state.carry)

\* the index j of seg lies in one of the marker spans
InSpan(spans, j) == \E sp \in spans : sp[1] <= j /\ j <= sp[2]

\* in_think when the scan is at index j: what the last think marker before j
\* has set, in_think as it was when there is none
ThinkAt(spans, j, in_think) ==
    LET before == {sp \in spans :
                      sp[2] < j /\ sp[2] - sp[1] + 1 # Len(FENCE)}
    IN IF before = {} THEN in_think
       ELSE \E sp \in before :
               /\ \A o \in before : o[1] <= sp[1]
               /\ sp[2] - sp[1] + 1 = Len(THINK_OPEN)

\* the fence markers before index j
FencesBefore(spans, j) ==
    {sp \in spans : sp[2] < j /\ sp[2] - sp[1] + 1 = Len(FENCE)}

\* the character at index j of seg belongs to a fenced block and is kept: it is
\* no part of a marker, not inside a think block, an odd number of fences
\* (counting an open one inherited from st) precedes it, and the language-tag
\* line of its block has ended before it
KeptInFence(seg, spans, j, st) ==
    /\ ~InSpan(spans, j)
    /\ ~ThinkAt(spans, j, st.in_think)
    /\ st.fence_open = (Cardinality(FencesBefore(spans, j)) % 2 = 0)
    /\ \/ FencesBefore(spans, j) = {} /\ st.fence_lang_captured
       \/ \E k \in 1..(j - 1) :
             /\ seg[k] = "\n"
             /\ ~InSpan(spans, k)
             /\ ~ThinkAt(spans, k, st.in_think)
             /\ \A sp \in FencesBefore(spans, j) : sp[2] < k

\* the kept characters of the fenced blocks of seg, in order
FencedKept(seg, st) ==
    LET spans == MarkerSpans(seg, 1, st.in_think)
        idx == {j \in 1..Len(seg) : KeptInFence(seg, spans, j, st)}
    IN [n \in 1..Cardinality(idx) |->
           seg[CHOOSE j \in idx : Cardinality({i \in idx : i < j}) = n - 1]]

\* what a step of the preprocessor scans: the carry and the chunk fed, less
\* the carry it leaves
Scanned ==
    SubSeq(preprocess_state.carry \o SubSeq(text, fed + 1, fed'), 1,
           Len(preprocess_state.carry) + (fed' - fed)
               - Len(preprocess_state'.carry))

C32_StringInert ==
    [][(fsm_state.in_string /\ fed' = fed + 1) =>
          /\ fsm_state'.depth = fsm_state.depth
          /\ fsm_state'.state = fsm_state.state
          /\ fsm_state'.buf = Append(fsm_state.buf, text[fed'])
          /\ fsm_state'.escape =
                (~fsm_state.escape /\ text[fed'] = "\\")
          /\ fsm_state'.in_string =
                (fsm_state.escape \/ text[fed'] # "\"")]_vars

\* a closing brace inside a string literal has been consumed and the string
\* has ended: the object is still open
C32_Witness ==
    /\ fsm_state.buf = <<"{", "\"", "}", "\"">>
    /\ fsm_state.state = "IN_JSON"
    /\ fsm_state.depth = 1
    /\ ~fsm_state.in_string

\* the closer of the opener c
Closer(c) == IF c = "{" THEN "}" ELSE "]"

\* buf[i..] read with the stack of unclosed openers: every closer outside a
\* string literal closes the most recent unclosed opener of its kind, and the
\* stack is empty at the end
RECURSIVE Balanced(_, _, _, _, _)
Balanced(buf, i, stack, in_str, esc) ==
    IF i > Len(buf) THEN stack = <<>>
    ELSE IF in_str
    THEN Balanced(buf, i + 1, stack,
                  esc \/ buf[i] # "\"", ~esc /\ buf[i] = "\\")
    ELSE IF buf[i] = "\"" THEN Balanced(buf, i + 1, stack, TRUE, FALSE)
    ELSE IF buf[i] \in {"{", "["}
    THEN Balanced(buf, i + 1, <<buf[i]>> \o stack, FALSE, FALSE)
    ELSE IF buf[i] \in {"}", "]"}
    THEN /\ stack # <<>>
         /\ buf[i] = Closer(Head(stack))
         /\ Balanced(buf, i + 1, Tail(stack), FALSE, FALSE)
    ELSE Balanced(buf, i + 1, stack, FALSE, FALSE)

\* C33: whenever the phase is DONE, buf is a balanced value whose last
\* character is the closer matching started_with.
C33_DoneBalanced ==
    fsm_state.state = "DONE" =>
        /\ fsm_state.buf[Len(fsm_state.buf)] = Closer(fsm_state.started_with)
        /\ Balanced(fsm_state.buf, 1, <<>>, FALSE, FALSE)

\* C34: whatever the chunks a text is fed in, the FSM is in the state one
\* fsm_feed call with the whole of what was fed leaves it in.
C34_FeedChunkingEquivalence ==
    pc = "feeding" =>
        fsm_state = fsm_feed(JsonFsmState(fsm_state.max_chars),
                             SubSeq(text, 1, fed), root)

\* an escaped double quote inside a string literal has been fed, the string
\* still open
C34_Witness ==
    /\ pc = "feeding"
    /\ fed = Len(text)
    /\ text = <<"{", "\"", "\\", "\"">>
    /\ fsm_state.in_string
    /\ fsm_state.buf = text

\* C38: the fields agree with the phase, and the phase only moves forward.
C38_PhaseFields ==
    /\ [](fsm_state.state = "SEEK_START" =>
             (fsm_state.depth = 0 /\ fsm_state.buf = <<>>))
    /\ [](fsm_state.state = "IN_JSON" =>
             (/\ fsm_state.depth >= 1
              /\ fsm_state.buf # <<>>
              /\ fsm_state.buf[1] = fsm_state.started_with))
    /\ [](fsm_state.state = "DONE" =>
             (fsm_state.depth = 0 /\ fsm_state.buf # <<>>))
    /\ [][\/ fsm_state'.state = fsm_state.state
          \/ fsm_state.state = "SEEK_START" /\ fsm_state'.state # "SEEK_START"
          \/ /\ fsm_state.state = "IN_JSON"
             /\ fsm_state'.state \in {"DONE", "FAILED"}]_vars

\* a nested value has been closed: the phase went from SEEK_START through
\* IN_JSON to DONE
C38_Witness ==
    /\ fsm_state.state = "DONE"
    /\ fsm_state.buf = <<"[", "{", "}", "]">>
    /\ fed = Len(text)
    /\ Len(text) = 4

\* text[a..] opens a reasoning region that text[b..] closes, the text between
\* the two markers holding no '</think>'
IsThinkRegion(a, b) ==
    /\ StartsWith(text, THINK_OPEN, a)
    /\ b >= a + Len(THINK_OPEN)
    /\ StartsWith(text, THINK_CLOSE, b)
    /\ \A c \in (a + Len(THINK_OPEN))..(b - Len(THINK_CLOSE)) :
          ~StartsWith(text, THINK_CLOSE, c)

\* text with the inside of the region emptied
Elided(a, b) ==
    SubSeq(text, 1, a + Len(THINK_OPEN) - 1) \o From(text, b)

\* C31: the text inside a reasoning region has no influence on the cleaned
\* result: the preprocessor, given the text as one chunk and finalized,
\* returns what it returns for the text with the region emptied.
C31_ThinkContentIgnored ==
    [][(fed = 0 /\ fed' = Len(text)) =>
          \A a \in 1..Len(text), b \in 1..Len(text) :
              IsThinkRegion(a, b) =>
                  preprocess_get_result(
                      preprocess_finalize(preprocess_state').state)
                      = SingleChunkResult(Elided(a, b))]_vars

\* t holds no '<think>' and no fence marker
NoMarkerInput(t) ==
    \A i \in 1..Len(t) :
        ~StartsWith(t, THINK_OPEN, i) /\ ~StartsWith(t, FENCE, i)

\* C39: for an input without '<think>' and without fence marker, in whatever
\* chunks it is fed, the strings returned by the preprocess_chunk calls
\* followed by the carry are the input fed so far, and with the string
\* preprocess_finalize returns they are the input, which is also all_content.
C39_LosslessWithoutMarkers ==
    /\ []((NoMarkerInput(text) /\ pc = "feeding") =>
             accumulated_content \o preprocess_state.carry
                 = SubSeq(text, 1, fed))
    /\ [][(NoMarkerInput(text) /\ pc = "feeding" /\ pc' = "finalized") =>
             /\ accumulated_content
                    \o preprocess_finalize(preprocess_state).out = text
             /\ preprocess_state'.all_content = text]_vars

\* an input without '<think>' and fence, longer than what the carry holds and
\* holding a '</think>', has been returned partly by the preprocess_chunk
\* calls and partly by preprocess_finalize
C39_Witness ==
    /\ pc = "finalized"
    /\ NoMarkerInput(text)
    /\ \E i \in 1..Len(text) : StartsWith(text, THINK_CLOSE, i)
    /\ accumulated_content # <<>>
    /\ Len(accumulated_content) < Len(text)
    /\ preprocess_state.all_content = text

\* C35: when the extraction ended in phase IN_JSON outside a string literal,
\* the text safe_repair returns has every container closed: the extraction FSM
\* fed that text reaches DONE at its last character.
C35_ClosersComplete ==
    (/\ repair_call = "extracted"
     /\ repair_fsm.state = "IN_JSON"
     /\ ~repair_fsm.in_string) =>
        /\ fsm_feed(JsonFsmState(MAX_JSON_CHARS), repair_out.repaired,
                    "none").state = "DONE"
        /\ fsm_feed(JsonFsmState(MAX_JSON_CHARS), repair_out.repaired,
                    "none").buf = repair_out.repaired

\* C36: when fsm_result reports a status other than TRUNCATED for the
\* extraction, safe_repair returns what its passes 1 to 4 give: no truncation
\* completion is applied and nothing is appended.
C36_CompletionOnlyWhenTruncated ==
    (/\ repair_call = "extracted"
     /\ fsm_result(repair_fsm)[2] # "TRUNCATED") =>
        repair_out.repaired = RepairPasses(repair_text)

----------------------------------------------------------------------------
\* ---- app/api/chat_noauth.py: concurrent requests on repair_artifacts ----
\* chat_completions is a coroutine that is suspended at `await request.json()`
\* and at `await client.post(...)`; store_repair_artifact is a plain function
\* and get_repair_result has no await, so each runs without a task switch.

\* bound: number of requests that may be awaiting their upstream at once
MaxConc == 3

\* the gateway after MAX_ARTIFACTS - 1 requests answered within one reading of
\* the clock: the store is one artifact below its capacity
ConcInit ==
    /\ text = <<>>
    /\ fed = 0
    /\ root = "none"
    /\ preprocess_state = PreprocessState
    /\ fsm_state = JsonFsmState(MAX_JSON_CHARS)
    /\ accumulated_content = <<>>
    /\ final_extraction = NoExtraction
    /\ pc = "gateway"
    /\ RepairIdle
    /\ upstream = <<>>
    /\ upstream_read = <<>>
    /\ buffer = <<>>
    /\ chunk = <<>>
    /\ downstream = <<>>
    /\ relay_pc = "idle"
    /\ repair_results = <<>>
    /\ result_writes = 0
    /\ request_id = NoneText
    /\ fixer_request_id = NoneText
    /\ repair_artifacts =
          [i \in 1..(MAX_ARTIFACTS - 1) |->
              [key |-> ReqId(i),
               value |-> Artifact(ReqId(i), isoformat(0), <<"{", "}">>,
                                  safe_repair(<<"{", "}">>, None))]]
    /\ clock = 0
    /\ next_id = MAX_ARTIFACTS - 1
    /\ response = NoResponse
    /\ request_body = <<>>
    /\ in_flight = {}
    /\ lookup = NoResponse

\* chat_completions from its entry to `await client.post(...)`: the body is
\* read, the request id is generated and the task waits for the upstream
BeginRequest ==
    /\ next_id < MAX_ARTIFACTS - 1 + MaxConc
    /\ next_id' = next_id + 1
    /\ request_body' = [stream |-> FALSE]
    /\ in_flight' = in_flight \cup {ReqId(next_id')}
    /\ UNCHANGED <<procVars, repairVars, relayVars, repair_artifacts, clock,
                   response, lookup>>

\* chat_completions from the return of `await client.post(...)` with status
\* 200 and the given content to its return
CompleteRequest(rid, content) ==
    /\ rid \in in_flight
    /\ in_flight' = in_flight \ {rid}
    /\ store_repair_artifact(rid, content)
    /\ \E repair_info \in {DictGet(repair_artifacts', rid)} :
          response' =
              [request_id |-> rid,
               original_content |-> content,
               content |-> IF repair_info.repaired_content # content
                           THEN repair_info.repaired_content
                           ELSE content]
    /\ lookup' = NoResponse
    /\ UNCHANGED <<procVars, repairVars, relayVars, next_id, request_body>>

\* the upstream answers a waiting request with valid JSON or with JSON to
\* repair; the ids looked up are the two oldest of the initial store and those
\* of the concurrent requests, answered or not
ConcNext ==
    \/ BeginRequest
    \/ \E rid \in in_flight, content \in {<<"{", "}">>, <<"{", ",", "}">>} :
          CompleteRequest(rid, content)
    \/ \E n \in {1, 2} \cup (MAX_ARTIFACTS..next_id) :
          get_repair_result(ReqId(n))

SpecConc == ConcInit /\ [][ConcNext]_vars

\* a stored value is the whole dict store_repair_artifact builds for the id
WholeArtifact(rid, v) ==
    /\ v.request_id = rid
    /\ v = Artifact(rid, v.timestamp, v.original_content, v.repaired_content)

====
